---- MODULE Spec2Model ----
(***************************************************************************)
(* Rule matching, dedup and delivery orchestration of the nudging tool.    *)
(*                                                                         *)
(* Strings are sequences of one-character strings, so that pattern         *)
(* matching, stripping and key formatting are computed as the code         *)
(* computes them.  Fact values are tagged (none / str / num) so that       *)
(* Python truthiness, isinstance and float() can be told apart.            *)
(***************************************************************************)
EXTENDS Integers, Sequences, FiniteSets, Bags, TLC

\* ------------------------------------------------------------------ bounds
\* Number of events the workers receive in one behaviour.
MaxEvents == 2

\* ------------------------------------------------------------------ values
None == [tag |-> "none", s |-> <<>>, n |-> 0]
Str(s) == [tag |-> "str", s |-> s, n |-> 0]
Num(n) == [tag |-> "num", s |-> <<>>, n |-> n]

\* Python truthiness of a fact value: None, "" and 0 are falsy.
Truthy(v) == \/ (v.tag = "str" /\ v.s # <<>>)
             \/ (v.tag = "num" /\ v.n # 0)

\* Python `a or b`.
Or(a, b) == IF Truthy(a) THEN a ELSE b

\* str(v) for the values the model uses as text.
DigitChars == <<"0", "1", "2", "3", "4", "5", "6", "7", "8", "9">>
Digits == {DigitChars[i] : i \in 1..10}

RECURSIVE LStrip(_)
LStrip(s) == IF s # <<>> /\ Head(s) = " " THEN LStrip(Tail(s)) ELSE s

RECURSIVE RStrip(_)
RStrip(s) == IF s # <<>> /\ s[Len(s)] = " " THEN RStrip(SubSeq(s, 1, Len(s) - 1)) ELSE s

\* str.strip()
Strip(s) == RStrip(LStrip(s))

AllDigits(s, from, to) == \A i \in from..to : s[i] \in Digits

\* _DAILY_RE  ^\d{4}-\d{2}-\d{2}$
DAILY_RE(s) == /\ Len(s) = 10
               /\ AllDigits(s, 1, 4) /\ s[5] = "-"
               /\ AllDigits(s, 6, 7) /\ s[8] = "-"
               /\ AllDigits(s, 9, 10)

\* _WEEKLY_RE  ^\d{4}-W\d{2}$
WEEKLY_RE(s) == /\ Len(s) = 8
                /\ AllDigits(s, 1, 4) /\ s[5] = "-" /\ s[6] = "W"
                /\ AllDigits(s, 7, 8)

\* _MONTHLY_RE  ^\d{4}-\d{2}$
MONTHLY_RE(s) == /\ Len(s) = 7
                 /\ AllDigits(s, 1, 4) /\ s[5] = "-"
                 /\ AllDigits(s, 6, 7)

\* _YEARLY_RE  ^\d{4}$
YEARLY_RE(s) == Len(s) = 4 /\ AllDigits(s, 1, 4)

\* ------------------------------------------------------------ time scope
NoTimeScope == [frequency |-> "none", scope |-> <<>>]

\* A time inference that knows no yearly pattern.
infer_time_scope_NoYearly(facts) ==
    LET raw == Or(facts.time, Or(facts.date, Or(facts.week, facts.period)))
    IN IF raw.tag # "str" \/ Strip(raw.s) = <<>>
       THEN NoTimeScope
       ELSE LET r == Strip(raw.s)
            IN IF DAILY_RE(r) THEN [frequency |-> "daily", scope |-> r]
               ELSE IF WEEKLY_RE(r) THEN [frequency |-> "weekly", scope |-> r]
               ELSE IF MONTHLY_RE(r) THEN [frequency |-> "monthly", scope |-> r]
               ELSE NoTimeScope

\* A time inference that looks at date before time.
infer_time_scope_DateFirst(facts) ==
    LET raw == Or(facts.date, Or(facts.time, Or(facts.week, facts.period)))
    IN IF raw.tag # "str" \/ Strip(raw.s) = <<>>
       THEN NoTimeScope
       ELSE LET r == Strip(raw.s)
            IN IF DAILY_RE(r) THEN [frequency |-> "daily", scope |-> r]
               ELSE IF WEEKLY_RE(r) THEN [frequency |-> "weekly", scope |-> r]
               ELSE IF MONTHLY_RE(r) THEN [frequency |-> "monthly", scope |-> r]
               ELSE IF YEARLY_RE(r) THEN [frequency |-> "yearly", scope |-> r]
               ELSE NoTimeScope

\* _infer_time_scope: first truthy of time, date, week, period; must be a
\* non-blank string; classified by pattern after strip().
infer_time_scope(facts) ==
    LET raw == Or(facts.time, Or(facts.date, Or(facts.week, facts.period)))
    IN IF raw.tag # "str" \/ Strip(raw.s) = <<>>
       THEN NoTimeScope
       ELSE LET r == Strip(raw.s)
            IN IF DAILY_RE(r) THEN [frequency |-> "daily", scope |-> r]
               ELSE IF WEEKLY_RE(r) THEN [frequency |-> "weekly", scope |-> r]
               ELSE IF MONTHLY_RE(r) THEN [frequency |-> "monthly", scope |-> r]
               ELSE IF YEARLY_RE(r) THEN [frequency |-> "yearly", scope |-> r]
               ELSE NoTimeScope

\* A normalization that mirrors a yearly scope into year.
normalize_time_fields_YearKey(facts, ts) ==
    LET out == [facts EXCEPT !.time = Str(ts.scope)]
    IN IF ts.frequency = "daily" THEN [out EXCEPT !.date = Str(ts.scope)]
       ELSE IF ts.frequency = "weekly" THEN [out EXCEPT !.week = Str(ts.scope)]
       ELSE IF ts.frequency = "monthly" THEN [out EXCEPT !.period = Str(ts.scope)]
       ELSE IF ts.frequency = "yearly" THEN [out EXCEPT !.year = Str(ts.scope)]
       ELSE out

\* _normalize_time_fields: a copy of the facts with time and the key of the
\* frequency set to the scope.
normalize_time_fields(facts, ts) ==
    LET out == [facts EXCEPT !.time = Str(ts.scope)]
    IN IF ts.frequency = "daily" THEN [out EXCEPT !.date = Str(ts.scope)]
       ELSE IF ts.frequency = "weekly" THEN [out EXCEPT !.week = Str(ts.scope)]
       ELSE IF ts.frequency = "monthly" THEN [out EXCEPT !.period = Str(ts.scope)]
       ELSE IF ts.frequency = "yearly" THEN [out EXCEPT !.period = Str(ts.scope)]
       ELSE out

\* ------------------------------------------------------- facts contract
\* _validate_facts_contract (engine): both keys must be non-empty strings.
validate_facts_contract(facts) ==
    (IF facts.facts_version.tag # "str" \/ ~Truthy(facts.facts_version)
     THEN <<"missing facts_version">> ELSE <<>>)
    \o
    (IF facts.scenario.tag # "str" \/ ~Truthy(facts.scenario)
     THEN <<"missing scenario">> ELSE <<>>)

\* validate_facts_contract (route level): both keys must be truthy.
route_validate_facts_contract(facts) ==
    (IF ~Truthy(facts.facts_version) THEN <<"missing facts_version">> ELSE <<>>)
    \o
    (IF ~Truthy(facts.scenario) THEN <<"missing scenario">> ELSE <<>>)

\* ------------------------------------------------------- reference data
\* Rule, Template and UserPreference rows are written by seeding only; the
\* engine and the orchestrator read them.
EN == <<"e", "n">>
IT == <<"i", "t">>
DEFAULT_LANG == EN

R_UP == <<"u", "p">>          \* imported_up, daily, default threshold 20.0
R_ST == <<"s", "t">>          \* static_message, daily
R_WL == <<"w", "l">>          \* static_message, dedup_window always
R_BT == <<"b", "t">>          \* imported_up, daily, threshold_pct "high"
R_RQ == <<"r", "q">>          \* static_message, daily, required_facts [delta_pct]
R_OF == <<"o", "f">>          \* daily, enabled = False
R_NT == <<"n", "t">>          \* daily, no template in any language
R_YR == <<"y", "r">>          \* static_message, yearly
R_NS == <<"n", "s">>          \* static_message, daily, scenarios = []
R_DN == <<"d", "n">>          \* imported_down, daily, default threshold -5.0
R_UT == <<"u", "t">>          \* imported_up, daily, threshold_pct 30
R_KP == <<"k", "p">>          \* kpi_conditions, daily: delta_pct > 50 and delta_pct <= 80
R_MY == <<"m", "y">>          \* kind "mystery", daily
R_EK == <<"e", "k">>          \* kind "", daily
R_RB == <<"r", "b">>          \* imported_up, threshold "high", two required facts
S_CB == <<"c", "b">>          \* scenario mapped to two rules
S_MX == <<"m", "x">>          \* scenario mapped to a daily, a yearly and a disabled rule
S_XX == <<"x", "x">>          \* scenario absent from the mapping, no such rule
NO_RULE == <<"_", "_", "n", "o", "_", "r", "u", "l", "e", "_", "_">>
NO_SCOPE == <<"_", "_", "n", "o", "_", "s", "c", "o", "p", "e", "_", "_">>

\* The rule ids that are keys of settings.SCENARIO_TO_RULE_IDS.
RuleIds == {R_UP, R_ST, R_WL, R_BT, R_RQ, R_OF, R_NT, R_YR}

RuleRow(id, enabled, kind, window, threshold, required) ==
    [id |-> id, enabled |-> enabled, type |-> "informative", severity |-> "info",
     definition |-> [kind |-> kind, dedup_window |-> window,
                     threshold_pct |-> threshold, required_facts |-> required,
                     scenarios |-> <<id>>, conditions |-> <<>>]]

\* The rules table.
Rules ==
    { RuleRow(R_UP, TRUE, "imported_up", "daily", None, <<>>),
      RuleRow(R_ST, TRUE, "static_message", "daily", None, <<>>),
      RuleRow(R_WL, TRUE, "static_message", "always", None, <<>>),
      RuleRow(R_BT, TRUE, "imported_up", "daily", Str(<<"h", "i", "g", "h">>), <<>>),
      RuleRow(R_RQ, TRUE, "static_message", "daily", None, <<"delta_pct">>),
      RuleRow(R_OF, FALSE, "static_message", "daily", None, <<>>),
      RuleRow(R_NT, TRUE, "static_message", "daily", None, <<>>),
      RuleRow(R_YR, TRUE, "static_message", "yearly", None, <<>>),
      [RuleRow(R_NS, TRUE, "static_message", "daily", None, <<>>)
           EXCEPT !.definition.scenarios = <<>>],
      RuleRow(R_DN, TRUE, "imported_down", "daily", None, <<>>),
      RuleRow(R_MY, TRUE, "mystery", "daily", None, <<>>),
      RuleRow(R_EK, TRUE, "", "daily", None, <<>>),
      [RuleRow(R_KP, TRUE, "kpi_conditions", "daily", None, <<>>)
           EXCEPT !.definition.conditions =
               << [fact_key |-> "delta_pct", op |-> ">", value |-> Num(50)],
                  [fact_key |-> "delta_pct", op |-> "<=", value |-> Num(80)] >>],
      RuleRow(R_UT, TRUE, "imported_up", "daily", Num(30), <<>>),
      RuleRow(R_RB, TRUE, "imported_up", "daily", Str(<<"h", "i", "g", "h">>),
              <<"delta_pct", "threshold_pct">>) }

\* The templates table: (rule_id, lang) pairs that have a row.
Templates ==
    { <<R_UP, EN>>, <<R_UP, IT>>, <<R_ST, EN>>, <<R_WL, EN>>, <<R_BT, EN>>,
      <<R_RQ, EN>>, <<R_OF, EN>>, <<R_YR, EN>>, <<R_NS, EN>>,
      <<R_RB, EN>>, <<R_DN, EN>>, <<R_UT, EN>>,
      <<R_KP, EN>>, <<R_MY, EN>>, <<R_EK, EN>> }

U1 == <<"u", "1">>            \* one preference row, lang it
U2 == <<"u", "2">>            \* two preference rows (generic and community c1)
U3 == <<"u", "3">>            \* no preference row
U4 == <<"u", "4">>            \* one preference row, max_per_day 0
COMM1 == <<"c", "1">>
COMM2 == <<"c", "2">>
NoCommunity == <<>>           \* community_id NULL / None

\* The user_preferences table; (user_id, community_id) is unique.
UserPreferences ==
    { [user_id |-> U1, community_id |-> NoCommunity, lang |-> IT, max_per_day |-> 2],
      [user_id |-> U2, community_id |-> NoCommunity, lang |-> EN, max_per_day |-> 3],
      [user_id |-> U2, community_id |-> COMM1, lang |-> EN, max_per_day |-> 0],
      [user_id |-> U4, community_id |-> NoCommunity, lang |-> EN, max_per_day |-> 0] }

\* settings.SCENARIO_TO_RULE_IDS: every shipped entry maps a scenario to the
\* one rule of the same name; S_CB is an entry with two rules, as the
\* environment may configure.
SCENARIO_TO_RULE_IDS(scenario) ==
    IF scenario \in {R_UP, R_ST, R_WL, R_BT, R_RQ, R_OF, R_NT, R_YR} THEN <<scenario>>
    ELSE IF scenario = S_CB THEN <<R_UP, R_ST>>
    ELSE IF scenario = S_MX THEN <<R_YR, R_UP, R_OF>>
    ELSE <<>>

ScenarioMapped(scenario) == scenario \in RuleIds \cup {S_CB, S_MX}

\* _resolve_rule_ids_from_scenario: the multi mapping, else (no legacy single
\* mapping is configured) the scenario itself as a rule id.
resolve_rule_ids_from_scenario(scenario) ==
    IF ScenarioMapped(scenario) THEN SCENARIO_TO_RULE_IDS(scenario)
    ELSE IF scenario # <<>> THEN <<scenario>>
    ELSE <<>>

RuleById(rid) == CHOOSE r \in Rules : r.id = rid

RECURSIVE FilterSeq(_, _)
FilterSeq(ids, keep) ==
    IF ids = <<>> THEN <<>>
    ELSE (IF Head(ids) \in keep THEN <<Head(ids)>> ELSE <<>>) \o FilterSeq(Tail(ids), keep)

\* A filter that keeps every enabled rule, whatever its dedup_window.
filter_rule_ids_EnabledOnly(rule_ids, frequency) ==
    FilterSeq(rule_ids, { r.id : r \in { q \in Rules : q.enabled } })

\* _filter_rule_ids_by_definition: enabled rules among rule_ids whose
\* dedup_window equals the inferred frequency.
filter_rule_ids_by_definition(rule_ids, frequency) ==
    FilterSeq(rule_ids,
              { r.id : r \in { q \in Rules : q.enabled
                                             /\ q.definition.dedup_window = frequency } })

\* _resolve_lang: facts.lang, else the user's preference (scalar_one_or_none
\* over every row of the user: several rows raise), else the default.
resolve_lang(user_id, facts) ==
    IF facts.lang.tag = "str" /\ Truthy(facts.lang)
    THEN [raised |-> "none", lang |-> facts.lang.s]
    ELSE LET rows == { p \in UserPreferences : p.user_id = user_id }
         IN IF Cardinality(rows) > 1
            THEN [raised |-> "MultipleResultsFound", lang |-> <<>>]
            ELSE IF rows # {} /\ (CHOOSE p \in rows : TRUE).lang # <<>>
            THEN [raised |-> "none", lang |-> (CHOOSE p \in rows : TRUE).lang]
            ELSE [raised |-> "none", lang |-> DEFAULT_LANG]

\* _load_rule_and_template: ValueError when the rule is missing or disabled,
\* or when it has no template in exactly the given language.
load_rule_and_template(rule_id, lang) ==
    IF ~\E r \in Rules : r.id = rule_id /\ r.enabled THEN "rule_not_found_or_disabled"
    ELSE IF <<rule_id, lang>> \notin Templates THEN "template_not_found"
    ELSE "ok"

\* _validate_required_facts: the required keys absent from the facts.
RECURSIVE MissingKeys(_, _)
MissingKeys(required, facts) ==
    IF required = <<>> THEN <<>>
    ELSE (IF facts[Head(required)].tag = "none" THEN <<Head(required)>> ELSE <<>>)
         \o MissingKeys(Tail(required), facts)

\* A check of required facts that finds nothing missing.
validate_required_facts_Skip(rule, facts) == <<>>

validate_required_facts(rule, facts) == MissingKeys(rule.definition.required_facts, facts)

\* ------------------------------------------------------------ evaluators
\* float(v): numbers, and strings that spell a number after strip();
\* anything else raises.
RECURSIVE DigitsValue(_)
DigitsValue(s) ==
    IF s = <<>> THEN 0
    ELSE 10 * DigitsValue(SubSeq(s, 1, Len(s) - 1))
         + ((CHOOSE i \in 1..10 : DigitChars[i] = s[Len(s)]) - 1)

NumericStr(s) ==
    LET t == Strip(s)
        u == IF t # <<>> /\ Head(t) = "-" THEN Tail(t) ELSE t
    IN u # <<>> /\ AllDigits(u, 1, Len(u))

FloatOk(v) == v.tag = "num" \/ (v.tag = "str" /\ NumericStr(v.s))

Float(v) ==
    IF v.tag = "num" THEN v.n
    ELSE LET t == Strip(v.s)
         IN IF Head(t) = "-" THEN 0 - DigitsValue(Tail(t)) ELSE DigitsValue(t)

THRESHOLD_UP_DEFAULT == 20
THRESHOLD_DOWN_DEFAULT == -5

Evaluated(triggered, facts, reason) ==
    [raised |-> "none", triggered |-> triggered, facts |-> facts, reason |-> reason]

EvalRaised(facts) ==
    [raised |-> "ValueError", triggered |-> FALSE, facts |-> facts, reason |-> "none"]

\* An imported_up evaluator that also triggers at the threshold.
evaluate_imported_up_NonStrict(rule, facts) ==
    LET thr == IF rule.definition.threshold_pct.tag = "none"
               THEN Num(THRESHOLD_UP_DEFAULT) ELSE rule.definition.threshold_pct
    IN IF ~FloatOk(thr) THEN EvalRaised(facts)
       ELSE IF facts.delta_pct.tag = "none"
       THEN Evaluated(FALSE, facts, "missing_fact:delta_pct")
       ELSE IF ~FloatOk(facts.delta_pct)
       THEN Evaluated(FALSE, facts, "invalid_fact:delta_pct")
       ELSE LET enriched == [facts EXCEPT !.threshold_pct = Num(Float(thr))]
            IN IF Float(facts.delta_pct) >= Float(thr)
               THEN Evaluated(TRUE, enriched, "none")
               ELSE Evaluated(FALSE, enriched, "condition_not_met")

\* _evaluate_imported_up: float(threshold) outside the try (raises on a
\* non-numeric rule value); delta_pct None, not a number, <= threshold, or above.
evaluate_imported_up(rule, facts) ==
    LET thr == IF rule.definition.threshold_pct.tag = "none"
               THEN Num(THRESHOLD_UP_DEFAULT) ELSE rule.definition.threshold_pct
    IN IF ~FloatOk(thr) THEN EvalRaised(facts)
       ELSE IF facts.delta_pct.tag = "none"
       THEN Evaluated(FALSE, facts, "missing_fact:delta_pct")
       ELSE IF ~FloatOk(facts.delta_pct)
       THEN Evaluated(FALSE, facts, "invalid_fact:delta_pct")
       ELSE LET enriched == [facts EXCEPT !.threshold_pct = Num(Float(thr))]
            IN IF Float(facts.delta_pct) > Float(thr)
               THEN Evaluated(TRUE, enriched, "none")
               ELSE Evaluated(FALSE, enriched, "condition_not_met")

\* _evaluate_imported_down: the mirror image, default -5.0, strict <.
evaluate_imported_down(rule, facts) ==
    LET thr == IF rule.definition.threshold_pct.tag = "none"
               THEN Num(THRESHOLD_DOWN_DEFAULT) ELSE rule.definition.threshold_pct
    IN IF ~FloatOk(thr) THEN EvalRaised(facts)
       ELSE IF facts.delta_pct.tag = "none"
       THEN Evaluated(FALSE, facts, "missing_fact:delta_pct")
       ELSE IF ~FloatOk(facts.delta_pct)
       THEN Evaluated(FALSE, facts, "invalid_fact:delta_pct")
       ELSE LET enriched == [facts EXCEPT !.threshold_pct = Num(Float(thr))]
            IN IF Float(facts.delta_pct) < Float(thr)
               THEN Evaluated(TRUE, enriched, "none")
               ELSE Evaluated(FALSE, enriched, "condition_not_met")

\* _evaluate_static_message and _evaluate_passthrough: always trigger.
evaluate_passthrough(rule, facts) == Evaluated(TRUE, facts, "none")

\* A dispatch that refuses a kind it has no evaluator for.
evaluate_rule_NotConfigured(rule, facts) ==
    IF rule.definition.kind = "imported_up" THEN evaluate_imported_up(rule, facts)
    ELSE IF rule.definition.kind = "imported_down" THEN evaluate_imported_down(rule, facts)
    ELSE IF rule.definition.kind \in {"static_message", "sunny_pros", "sunny_cons",
                                      "extr_event", "price_up", "price_down"}
    THEN evaluate_passthrough(rule, facts)
    ELSE Evaluated(FALSE, facts, "evaluator_not_configured")

\* _evaluate_rule: dispatch on definition.kind; every other kind passes through.
evaluate_rule(rule, facts) ==
    IF rule.definition.kind = "imported_up" THEN evaluate_imported_up(rule, facts)
    ELSE IF rule.definition.kind = "imported_down" THEN evaluate_imported_down(rule, facts)
    ELSE evaluate_passthrough(rule, facts)

\* ------------------------------------------------------------ dedup scope
\* datetime.utcnow() as the strings _dedup_scope formats from it, for the
\* successive days of a behaviour.
Clock ==
    << [year |-> <<"2", "0", "2", "6">>,
        date |-> <<"2", "0", "2", "6", "-", "1", "2", "-", "3", "1">>,
        week |-> <<"2", "0", "2", "6", "-", "W", "5", "2">>,
        month |-> <<"2", "0", "2", "6", "-", "1", "2">>,
        hour |-> <<"2", "0", "2", "6", "-", "1", "2", "-", "3", "1", "T", "2", "3">>],
       [year |-> <<"2", "0", "2", "7">>,
        date |-> <<"2", "0", "2", "7", "-", "0", "1", "-", "0", "1">>,
        week |-> <<"2", "0", "2", "7", "-", "W", "0", "0">>,
        month |-> <<"2", "0", "2", "7", "-", "0", "1">>,
        hour |-> <<"2", "0", "2", "7", "-", "0", "1", "-", "0", "1", "T", "0", "0">>] >>

RECURSIVE NatToStr(_)
NatToStr(n) ==
    IF n < 10 THEN <<DigitChars[n + 1]>>
    ELSE NatToStr(n \div 10) \o <<DigitChars[(n % 10) + 1]>>

\* str(v) of a truthy fact value.
StrOf(v) ==
    IF v.tag = "str" THEN v.s
    ELSE IF v.n < 0 THEN <<"-">> \o NatToStr(0 - v.n) ELSE NatToStr(v.n)

ONCE == <<"o", "n", "c", "e">>

\* _dedup_scope: always, once and one give the constant "once"; yearly reads
\* facts.year, daily facts.date, weekly facts.week, hourly facts.hour, any
\* other window facts.period; each falls back to the wall clock.
dedup_scope(rule, facts, now) ==
    LET window == rule.definition.dedup_window
    IN IF window \in {"always", "once", "one"} THEN ONCE
       ELSE IF window = "yearly"
       THEN (IF Truthy(facts.year) THEN StrOf(facts.year) ELSE now.year)
       ELSE IF window = "daily"
       THEN (IF Truthy(facts.date) THEN StrOf(facts.date) ELSE now.date)
       ELSE IF window = "weekly"
       THEN (IF facts.week.tag = "str" /\ Truthy(facts.week) THEN facts.week.s ELSE now.week)
       ELSE IF window = "hourly"
       THEN (IF Truthy(facts.hour) THEN StrOf(facts.hour) ELSE now.hour)
       ELSE (IF Truthy(facts.period) THEN StrOf(facts.period) ELSE now.month)

\* compute_dedup_key: f"{rule_id}:{user_id}:{scope}"
compute_dedup_key(rule_id, user_id, scope) ==
    rule_id \o <<":">> \o user_id \o <<":">> \o scope

ATTEMPT == <<"a", "t", "t", "e", "m", "p", "t", ":">>

\* An attempt key without the uuid suffix.
attempt_dedup_key_NoUuid(rule_id, user_id, scope, hex) ==
    ATTEMPT \o rule_id \o <<":">> \o user_id \o <<":">> \o scope

\* _attempt_dedup_key: f"attempt:{rule_id}:{user_id}:{scope}:{uuid4().hex}"
attempt_dedup_key(rule_id, user_id, scope, hex) ==
    <<"a", "t", "t", "e", "m", "p", "t", ":">>
    \o rule_id \o <<":">> \o user_id \o <<":">> \o scope \o <<":">> \o hex

\* --------------------------------------------------------------- events
\* DigitalTwinEvent declares event_type, timestamp, user_id, payload and
\* facts; it declares no community_id, so an event parsed by the routes has
\* no such attribute (NoAttr) and reading evt.community_id raises
\* AttributeError.  _run_single_rule reads evt.community_id, so the model
\* also runs the engine on event objects that carry the attribute.
NoAttr == [attr |-> FALSE, id |-> <<>>]
Attr(c) == [attr |-> TRUE, id |-> c]

FactKeys == {"facts_version", "scenario", "time", "date", "week", "period", "year",
             "hour", "lang", "delta_pct", "threshold_pct"}

Facts(scenario, time, delta) ==
    [facts_version |-> Str(<<"1">>), scenario |-> Str(scenario), time |-> time,
     date |-> None, week |-> None, period |-> None, year |-> None, hour |-> None,
     lang |-> None, delta_pct |-> delta, threshold_pct |-> None]

Event(user_id, community, facts) ==
    [user_id |-> user_id, community |-> community, facts |-> facts]

D1 == Str(<<"2", "0", "2", "6", "-", "0", "2", "-", "2", "4">>)
D2 == Str(<<"2", "0", "2", "6", "-", "0", "2", "-", "2", "5">>)
BadTime == Str(<<"n", "o", "t", "-", "a", "-", "d", "a", "t", "e">>)

E_Route == Event(U3, NoAttr, Facts(R_UP, D1, Num(25)))
E_Up == Event(U3, Attr(NoCommunity), Facts(R_UP, D1, Num(25)))
E_UpC1 == Event(U3, Attr(COMM1), Facts(R_UP, D1, Num(25)))
E_UpD2 == Event(U3, Attr(NoCommunity), Facts(R_UP, D2, Num(25)))
E_UpLow == Event(U3, Attr(NoCommunity), Facts(R_UP, D1, Num(20)))
E_Always == Event(U3, Attr(NoCommunity), Facts(R_WL, D1, None))
E_Unmapped == Event(U3, Attr(NoCommunity), Facts(S_XX, D1, None))
E_BadTime == Event(U3, Attr(NoCommunity), Facts(R_UP, BadTime, Num(25)))
E_TwoPrefs == Event(U2, Attr(NoCommunity), Facts(R_UP, D1, Num(25)))
E_BadThreshold == Event(U3, Attr(NoCommunity), Facts(R_BT, D1, Num(25)))
E_Combo == Event(U3, Attr(NoCommunity), Facts(S_CB, D1, Num(25)))
E_NoTemplate == Event(U1, Attr(NoCommunity), Facts(R_ST, D1, None))
E_Required == Event(U3, Attr(NoCommunity), Facts(R_RQ, D1, None))
E_Capped == Event(U4, Attr(NoCommunity), Facts(R_UP, D1, Num(25)))

Events == {E_Route, E_Up, E_UpC1, E_UpD2, E_UpLow, E_Always, E_Unmapped, E_BadTime,
           E_TwoPrefs, E_BadThreshold, E_Combo, E_NoTemplate, E_Required, E_Capped}

\* Further events, submitted one after the other to one worker.
E_NoScenarios == Event(U3, Attr(NoCommunity), Facts(R_NS, D1, None))

E_Mixed == Event(U3, Attr(NoCommunity), Facts(S_MX, D1, Num(25)))

W08 == Str(<<"2", "0", "2", "6", "-", "W", "0", "8">>)
M02 == Str(<<"2", "0", "2", "6", "-", "0", "2">>)
Y2024 == Str(<<"2", "0", "2", "4">>)
Y2025 == Str(<<"2", "0", "2", "5">>)
D1Padded == Str(<<" ">> \o D1.s \o <<" ">>)

E_Weekly == Event(U3, Attr(NoCommunity), Facts(R_UP, W08, Num(25)))
E_Monthly == Event(U3, Attr(NoCommunity), Facts(R_UP, M02, Num(25)))
E_Y2024 == Event(U3, Attr(NoCommunity), Facts(R_YR, Y2024, None))
E_Y2025 == Event(U3, Attr(NoCommunity), Facts(R_YR, Y2025, None))
E_Padded == Event(U3, Attr(NoCommunity), Facts(R_UP, D1Padded, Num(25)))
E_NoTime == Event(U3, Attr(NoCommunity), Facts(R_UP, None, Num(25)))
E_NumTime == Event(U3, Attr(NoCommunity), Facts(R_UP, Num(2026), Num(25)))

E_ReqNone == Event(U3, Attr(NoCommunity), Facts(R_RB, D1, None))
E_ReqOne == Event(U3, Attr(NoCommunity), Facts(R_RB, D1, Num(25)))
E_ReqAll == Event(U3, Attr(NoCommunity), Facts(R_RQ, D1, Num(25)))

NotANumber == Str(<<"a", "b", "c">>)

E_UpNone == Event(U3, Attr(NoCommunity), Facts(R_UP, D1, None))
E_UpBad == Event(U3, Attr(NoCommunity), Facts(R_UP, D1, NotANumber))
E_UpText == Event(U3, Attr(NoCommunity), Facts(R_UP, D1, Str(<<"2", "1">>)))
E_Ut30 == Event(U3, Attr(NoCommunity), Facts(R_UT, D1, Num(30)))
E_Ut31 == Event(U3, Attr(NoCommunity), Facts(R_UT, D1, Num(31)))
E_DnLow == Event(U3, Attr(NoCommunity), Facts(R_DN, D1, Num(0 - 6)))
E_DnEq == Event(U3, Attr(NoCommunity), Facts(R_DN, D1, Num(0 - 5)))
E_DnNone == Event(U3, Attr(NoCommunity), Facts(R_DN, D1, None))
E_DnBad == Event(U3, Attr(NoCommunity), Facts(R_DN, D1, NotANumber))

E_KpMet == Event(U3, Attr(NoCommunity), Facts(R_KP, D1, Num(60)))
E_KpUnmet == Event(U3, Attr(NoCommunity), Facts(R_KP, D1, Num(25)))
E_KpNone == Event(U3, Attr(NoCommunity), Facts(R_KP, D1, None))
E_KpBad == Event(U3, Attr(NoCommunity), Facts(R_KP, D1, NotANumber))

E_Mystery == Event(U3, Attr(NoCommunity), Facts(R_MY, D1, None))
E_EmptyKind == Event(U3, Attr(NoCommunity), Facts(R_EK, D1, Num(25)))

E_NoVersion ==
    Event(U3, Attr(NoCommunity), [Facts(R_UP, D1, Num(25)) EXCEPT !.facts_version = None])
E_NoScenarioKey ==
    Event(U3, Attr(NoCommunity), [Facts(R_UP, D1, Num(25)) EXCEPT !.scenario = None])
E_EmptyScenario ==
    Event(U3, Attr(NoCommunity), [Facts(R_UP, D1, Num(25)) EXCEPT !.scenario = Str(<<>>)])
E_NumVersion ==
    Event(U3, Attr(NoCommunity), [Facts(R_UP, D1, Num(25)) EXCEPT !.facts_version = Num(1)])
E_NumScenario ==
    Event(U3, Attr(NoCommunity), [Facts(R_UP, D1, Num(25)) EXCEPT !.scenario = Num(7)])

E_TwoPrefsC1 ==
    Event(U2, Attr(COMM1), [Facts(R_UP, D1, Num(25)) EXCEPT !.lang = Str(EN)])
E_OnePrefC1 == Event(U1, Attr(COMM1), Facts(R_UP, D1, Num(25)))

E_ComboLow == Event(U3, Attr(NoCommunity), Facts(S_CB, D1, Num(20)))
E_St == Event(U3, Attr(NoCommunity), Facts(R_ST, D1, None))

EventsSeq ==
    Events \cup {E_NoScenarios, E_Mixed, E_Weekly, E_Monthly, E_Y2024, E_Y2025,
                 E_Padded, E_NoTime, E_NumTime, E_ReqNone, E_ReqOne, E_ReqAll,
                 E_UpNone, E_UpBad, E_UpText, E_Ut30, E_Ut31,
                 E_DnLow, E_DnEq, E_DnNone, E_DnBad,
                 E_KpMet, E_KpUnmet, E_KpNone, E_KpBad,
                 E_Mystery, E_EmptyKind,
                 E_NoVersion, E_NoScenarioKey, E_EmptyScenario, E_NumVersion,
                 E_NumScenario, E_TwoPrefsC1, E_OnePrefC1, E_ComboLow,
                 E_St}

FactsEmpty(facts) == \A k \in FactKeys : facts[k].tag = "none"

\* -------------------------------------------------------------- seeding
MaxSeeds == 3

\* Rows of a table (a bag) equal to a row on the columns of a key, as a set.
Matching(tbl, key, row) ==
    { r \in BagToSet(tbl) : \A c \in key : r[c] = row[c] }

\* How many rows of a table are equal to a row on the columns of a key.
CountMatching(tbl, key, row) ==
    LET rows == Matching(tbl, key, row)
        RECURSIVE Sum(_)
        Sum(S) == IF S = {} THEN 0
                  ELSE LET r == CHOOSE x \in S : TRUE
                       IN CopiesIn(r, tbl) + Sum(S \ {r})
    IN Sum(rows)

Upserted(tbl) == [raised |-> FALSE, rows |-> tbl]
UpsertRaised(tbl) == [raised |-> TRUE, rows |-> tbl]

\* scalar_one_or_none() on the rows of the logical key, then db.add of a
\* new row or assignment of the fields of the row found: Update maps each
\* row of the table to the row it becomes when it is the one found.
Upsert(tbl, key, New, Update) ==
    IF CountMatching(tbl, key, New) > 1 THEN UpsertRaised(tbl)
    ELSE IF CountMatching(tbl, key, New) = 0 THEN Upserted(tbl (+) SetToBag({New}))
    ELSE LET old == CHOOSE r \in Matching(tbl, key, New) : TRUE
         IN Upserted((tbl (-) SetToBag({old})) (+) SetToBag({Update[old]}))

MAX_PER_DAY_DEFAULT == 3

\* A seeding of preferences that adds a row without looking for one.
upsert_preference_InsertOnly(tbl, p) ==
    Upserted(tbl (+) SetToBag({[user_id |-> p.user_id, community_id |-> p.community_id,
                                lang |-> IF Strip(p.lang) # <<>> THEN Strip(p.lang)
                                         ELSE DEFAULT_LANG,
                                max_per_day |-> IF p.max_per_day >= 0 THEN p.max_per_day
                                                ELSE MAX_PER_DAY_DEFAULT]}))

\* A rule of the seed: enabled is "absent", "true" or "false".
RuleSeed(id, enabled, kind, window) ==
    [id |-> id, enabled |-> enabled, kind |-> kind, window |-> window]

\* upsert_rule: by primary key; every field is taken from the seed.
upsert_rule(tbl, r) ==
    LET row == RuleRow(r.id, r.enabled # "false", r.kind, r.window, None, <<>>)
    IN Upsert(tbl, {"id"}, row, [old \in BagToSet(tbl) |-> row])

\* _tpl_id: "/" and " " become "_".
Safe(s) == [i \in 1..Len(s) |-> IF s[i] \in {"/", " "} THEN "_" ELSE s[i]]
tpl_id(rule_id, lang) == <<"t", "p", "l", "_">> \o Safe(rule_id) \o <<"_">> \o Safe(lang)

TemplateRow(id, rule_id, lang, title_jinja) ==
    [id |-> id, rule_id |-> rule_id, lang |-> lang, title_jinja |-> title_jinja]

\* A template of the seed: id and lang are <<>> when absent.
TemplateSeed(id, rule_id, lang, title_jinja) ==
    [id |-> id, rule_id |-> rule_id, lang |-> lang, title_jinja |-> title_jinja]

\* upsert_template: by (rule_id, stripped lang); a new row gets the id of the
\* seed or the deterministic one, a row found keeps its id.
upsert_template(tbl, t) ==
    LET lang == Strip(IF t.lang # <<>> THEN t.lang ELSE DEFAULT_LANG)
        template_id == IF t.id # <<>> THEN t.id ELSE tpl_id(t.rule_id, lang)
    IN Upsert(tbl, {"rule_id", "lang"},
              TemplateRow(template_id, t.rule_id, lang, t.title_jinja),
              [old \in BagToSet(tbl) |->
                  TemplateRow(old.id, t.rule_id, lang, t.title_jinja)])

\* A preference of the seed: lang is <<>> and max_per_day is -1 when absent.
PreferenceSeed(user_id, community_id, lang, max_per_day) ==
    [user_id |-> user_id, community_id |-> community_id, lang |-> lang,
     max_per_day |-> max_per_day]

\* upsert_preference: by (user_id, community_id), NULL matching NULL; lang
\* is the stripped lang of the seed, else the one of the row found, else the
\* default.
upsert_preference(tbl, p) ==
    LET lang_of(old_lang) == IF Strip(p.lang) # <<>> THEN Strip(p.lang)
                             ELSE IF old_lang # <<>> THEN old_lang ELSE DEFAULT_LANG
        max == IF p.max_per_day >= 0 THEN p.max_per_day ELSE MAX_PER_DAY_DEFAULT
    IN Upsert(tbl, {"user_id", "community_id"},
              [user_id |-> p.user_id, community_id |-> p.community_id,
               lang |-> lang_of(<<>>), max_per_day |-> max],
              [old \in BagToSet(tbl) |->
                  [old EXCEPT !.lang = lang_of(old.lang), !.max_per_day = max]])

\* An override of the seed: enabled_override is "absent", "null", "true" or
\* "false".
OverrideSeed(rule_id, community_id, enabled_override) ==
    [rule_id |-> rule_id, community_id |-> community_id,
     enabled_override |-> enabled_override]

\* upsert_rule_override: by (rule_id, community_id); enabled_override is
\* assigned only when the seed has the key.
upsert_rule_override(tbl, o) ==
    Upsert(tbl, {"rule_id", "community_id"},
           [rule_id |-> o.rule_id, community_id |-> o.community_id,
            enabled_override |-> IF o.enabled_override = "absent" THEN "null"
                                 ELSE o.enabled_override],
           [old \in BagToSet(tbl) |->
               IF o.enabled_override = "absent" THEN old
               ELSE [old EXCEPT !.enabled_override = o.enabled_override]])

\* The upsert of one seed into the table of the given name.
upsert(table, tbl, seed) ==
    CASE table = "rules" -> upsert_rule(tbl, seed)
      [] table = "templates" -> upsert_template(tbl, seed)
      [] table = "user_preferences" -> upsert_preference(tbl, seed)
      [] table = "rule_overrides" -> upsert_rule_override(tbl, seed)

\* The upserts of a list of seeds in turn; the first exception ends them.
RECURSIVE UpsertAll(_, _, _)
UpsertAll(table, tbl, seeds) ==
    IF seeds = <<>> THEN Upserted(tbl)
    ELSE LET first == upsert(table, tbl, Head(seeds))
         IN IF first.raised THEN first
            ELSE UpsertAll(table, first.rows, Tail(seeds))

\* ---------------------------------------------------------------- state
Workers == {1, 2}

VARIABLES
    nudges_log,      \* table nudges_log: set of rows
    notifications,   \* table notifications: set of rows
    delivery_log,    \* table delivery_log: set of rows
    day,             \* index of the current wall-clock day in Clock
    nreceived,       \* events received so far
    wk,              \* per worker: the request it is handling
    rules,           \* table rules: bag of rows
    templates,       \* table templates: bag of rows
    user_preferences,\* table user_preferences: bag of rows
    rule_overrides,  \* table rule_overrides: bag of rows
    applied,         \* the seed payloads applied so far
    call             \* a function called on its own: its argument and result

\* The tables written by seeding, and the rest.
seedvars == <<rules, templates, user_preferences, rule_overrides, applied>>
enginevars == <<nudges_log, notifications, delivery_log, day, nreceived, wk>>

vars == <<nudges_log, notifications, delivery_log, day, nreceived, wk,
          rules, templates, user_preferences, rule_overrides, applied, call>>

NoNudge == [nudge_id |-> <<>>, rule_id |-> <<>>, dedup_key |-> <<>>, scope |-> <<>>]

Idle ==
    [pc |-> "idle", evt |-> E_Up, lang |-> <<>>, facts |-> E_Up.facts, todo |-> <<>>,
     results |-> <<>>, batch |-> "none", fault |-> "none", nudge |-> NoNudge,
     orchestrated |-> 0, jobs |-> 0, http |-> 0, nuuid |-> 0, at |-> "none"]

\* No function is called on its own.
NoCall == [fn |-> "none"]

\* The database and the workers at start.
InitDb ==
    /\ nudges_log = {}
    /\ notifications = {}
    /\ delivery_log = {}
    /\ day = 1
    /\ nreceived = 0
    /\ wk = [w \in Workers |-> Idle]
    /\ rules = SetToBag(Rules)
    /\ templates = SetToBag({ TemplateRow(tpl_id(t[1], t[2]), t[1], t[2], "title")
                                : t \in Templates })
    /\ user_preferences = SetToBag(UserPreferences)
    /\ rule_overrides = EmptyBag
    /\ applied = <<>>

Init == call = NoCall /\ InitDb

\* uuid4().hex: fresh for every draw (worker, draw number).
Hex(w, k) == <<"f">> \o NatToStr(w) \o <<"a">> \o NatToStr(k)

EngineResult(status, reason, rule_id, nudge_id, dedup_key) ==
    [status |-> status, reason |-> reason, rule_id |-> rule_id,
     nudge_id |-> nudge_id, dedup_key |-> dedup_key, missing |-> <<>>]

NudgeLogRow(id, rule_id, user_id, dedup_key, status, reason) ==
    [id |-> id, rule_id |-> rule_id, user_id |-> user_id, community_id |-> NoCommunity,
     dedup_key |-> dedup_key, status |-> status, reason |-> reason]

\* nudges_log without uq_nudges_dedup_key: the primary key alone.
UniqueViolation_PrimaryKeyOnly(rows, row) ==
    \E r \in rows : r.id = row.id

\* uq_nudges_dedup_key and the primary key of nudges_log.
UniqueViolation(rows, row) ==
    \E r \in rows : r.dedup_key = row.dedup_key \/ r.id = row.id

\* An audit row that drops the reason of the outcome.
log_status_NoReason(status, rule_id, user_id, scope, reason, w, k) ==
    NudgeLogRow(Hex(w, k + 1), rule_id, user_id,
                attempt_dedup_key(rule_id, user_id, scope, Hex(w, k)), status, "none")

\* _log_status for a non-created outcome: a row under a fresh attempt key.
log_status(status, rule_id, user_id, scope, reason, w, k) ==
    NudgeLogRow(Hex(w, k + 1), rule_id, user_id,
                attempt_dedup_key(rule_id, user_id, scope, Hex(w, k)), status, reason)

HasCreated(results) == \E i \in 1..Len(results) : results[i].status = "created"

\* The state of a worker after the result of one rule: the next rule, or the
\* batch returns to the route.
AfterResult(s, res, drawn) ==
    LET all == Append(s.results, res)
        rest == Tail(s.todo)
    IN [s EXCEPT !.results = all, !.todo = rest, !.nudge = NoNudge,
                 !.nuuid = s.nuuid + drawn,
                 !.batch = IF rest = <<>> THEN "returned" ELSE "running",
                 !.pc = IF rest # <<>> THEN "rule"
                        ELSE IF HasCreated(all) THEN "orchestrate" ELSE "respond"]

\* run_engine_batch returns one result before any rule is looked at.
SingleResult(s, res) ==
    [s EXCEPT !.results = <<res>>, !.todo = <<>>, !.batch = "returned",
              !.nuuid = s.nuuid + 2, !.pc = "respond"]

Raised(s, exception) ==
    [s EXCEPT !.fault = exception, !.pc = "faulted",
              !.batch = IF s.batch = "running" THEN "raised" ELSE s.batch]

\* ------------------------------------------------------------- actions
\* ingest_event, up to the call of the engine: empty facts and facts failing
\* the route's contract are answered 422 without any write.
Receive(w, e) ==
    /\ wk[w].pc \in {"idle", "done", "aborted", "faulted"}
    /\ nreceived < MaxEvents
    /\ nreceived' = nreceived + 1
    /\ wk' = [wk EXCEPT ![w] =
                 IF FactsEmpty(e.facts) \/ route_validate_facts_contract(e.facts) # <<>>
                 THEN [Idle EXCEPT !.pc = "done", !.evt = e, !.facts = e.facts,
                                   !.http = 422, !.nuuid = wk[w].nuuid]
                 ELSE [Idle EXCEPT !.pc = "engine", !.evt = e, !.facts = e.facts,
                                   !.batch = "running", !.nuuid = wk[w].nuuid]]
    /\ UNCHANGED <<nudges_log, notifications, delivery_log, day, seedvars, call>>

\* run_engine_batch up to the loop over the rules: language, facts contract,
\* time scope, scenario mapping, frequency filter.  Each early return writes
\* one audit row under the __no_rule__ placeholder.
run_engine_batch(w) ==
    LET s == wk[w]
        user == s.evt.user_id
        raw == s.evt.facts
        rl == resolve_lang(user, raw)
        errors == validate_facts_contract(raw)
        ts == infer_time_scope(raw)
        rule_ids_all == resolve_rule_ids_from_scenario(raw.scenario.s)
        rule_ids == filter_rule_ids_by_definition(rule_ids_all, ts.frequency)
        early == IF errors # <<>>
                 THEN <<"missing_facts", "invalid_facts_contract", NO_SCOPE>>
                 ELSE IF ts = NoTimeScope
                 THEN <<"missing_facts", "missing_or_invalid_time_scope", NO_SCOPE>>
                 ELSE IF rule_ids_all = <<>>
                 THEN <<"unknown_scenario", "scenario_not_mapped", ts.scope>>
                 ELSE IF rule_ids = <<>>
                 THEN <<"unknown_scenario", "no_rule_for_inferred_frequency", ts.scope>>
                 ELSE <<"none", "none", <<>>>>
        row == log_status(early[1], NO_RULE, user, early[3], early[2], w, s.nuuid)
    IN /\ s.pc = "engine"
       /\ IF rl.raised # "none"
          THEN /\ wk' = [wk EXCEPT ![w] = Raised(s, rl.raised)]
               /\ UNCHANGED nudges_log
          ELSE IF early[1] # "none"
          THEN IF UniqueViolation(nudges_log, row)
               THEN /\ wk' = [wk EXCEPT ![w] = Raised(s, "IntegrityError")]
                    /\ UNCHANGED nudges_log
               ELSE /\ nudges_log' = nudges_log \cup {row}
                    /\ wk' = [wk EXCEPT ![w] =
                                 SingleResult(s, EngineResult(early[1], early[2],
                                                              <<>>, <<>>, <<>>))]
          ELSE /\ wk' = [wk EXCEPT ![w] =
                            [s EXCEPT !.lang = rl.lang,
                                      !.facts = normalize_time_fields(raw, ts),
                                      !.todo = rule_ids, !.pc = "rule"]]
               /\ UNCHANGED nudges_log
       /\ UNCHANGED <<notifications, delivery_log, day, nreceived, seedvars, call>>

NudgeTypes == {"informative", "opportunity", "alert"}
NudgeSeverities == {"info", "warning", "critical"}

\* _run_single_rule up to the dedup insert: load rule and template, required
\* facts, evaluation, render context, NudgeEvent.  Every outcome other than
\* a triggered rule writes one audit row and is the rule's result.
run_single_rule(w) ==
    LET s == wk[w]
        user == s.evt.user_id
        rid == Head(s.todo)
        load == load_rule_and_template(rid, s.lang)
        rule == RuleById(rid)
        scope == dedup_scope(rule, s.facts, Clock[day])
        missing == validate_required_facts(rule, s.facts)
        ev == evaluate_rule(rule, s.facts)
        fallback_scope == LET t == Or(s.facts.time, Or(s.facts.date,
                                      Or(s.facts.week, s.facts.period)))
                          IN IF Truthy(t) THEN StrOf(t) ELSE NO_SCOPE
        outcome == IF load # "ok" THEN <<"unknown_scenario", load, fallback_scope>>
                   ELSE IF missing # <<>>
                   THEN <<"missing_facts", "missing_required_facts", scope>>
                   ELSE IF ev.raised # "none" THEN <<"raise", ev.raised, scope>>
                   ELSE IF ~ev.triggered THEN <<"not_triggered", ev.reason, scope>>
                   ELSE IF ~s.evt.community.attr THEN <<"raise", "AttributeError", scope>>
                   ELSE IF rule.type \notin NudgeTypes \/ rule.severity \notin NudgeSeverities
                   THEN <<"raise", "ValueError", scope>>
                   ELSE <<"triggered", "none", scope>>
        row == log_status(outcome[1], rid, user, outcome[3], outcome[2], w, s.nuuid)
    IN /\ s.pc = "rule"
       /\ IF outcome[1] = "raise"
          THEN /\ wk' = [wk EXCEPT ![w] = Raised(s, outcome[2])]
               /\ UNCHANGED nudges_log
          ELSE IF outcome[1] = "triggered"
          THEN /\ wk' = [wk EXCEPT ![w] =
                            [s EXCEPT !.pc = "insert", !.nuuid = s.nuuid + 1,
                                      !.nudge = [nudge_id |-> Hex(w, s.nuuid),
                                                 rule_id |-> rid,
                                                 dedup_key |->
                                                     compute_dedup_key(rid, user, scope),
                                                 scope |-> scope]]]
               /\ UNCHANGED nudges_log
          ELSE IF UniqueViolation(nudges_log, row)
          THEN /\ wk' = [wk EXCEPT ![w] = Raised(s, "IntegrityError")]
               /\ UNCHANGED nudges_log
          ELSE /\ nudges_log' = nudges_log \cup {row}
               /\ wk' = [wk EXCEPT ![w] =
                            AfterResult(s, [EngineResult(outcome[1], outcome[2], rid,
                                                         <<>>, <<>>)
                                            EXCEPT !.missing =
                                                IF outcome[2] = "missing_required_facts"
                                                THEN missing ELSE <<>>], 2)]
       /\ UNCHANGED <<notifications, delivery_log, day, nreceived, seedvars, call>>

\* A dedup insert that replaces the stored row of the same dedup key.
insert_nudge_Upsert(w) ==
    LET s == wk[w]
        n == s.nudge
        created == NudgeLogRow(n.nudge_id, n.rule_id, s.evt.user_id, n.dedup_key,
                               "created", "none")
    IN /\ s.pc = "insert"
       /\ nudges_log' = { r \in nudges_log : r.dedup_key # n.dedup_key } \cup {created}
       /\ wk' = [wk EXCEPT ![w] =
                    AfterResult(s, EngineResult("created", "none", n.rule_id,
                                                n.nudge_id, n.dedup_key), 0)]
       /\ UNCHANGED <<notifications, delivery_log, day, nreceived, seedvars, call>>

\* A dedup insert whose rollback also undoes the rows the batch created for
\* its earlier rules.
insert_nudge_RollbackBatch(w) ==
    LET s == wk[w]
        user == s.evt.user_id
        n == s.nudge
        created == NudgeLogRow(n.nudge_id, n.rule_id, user, n.dedup_key, "created", "none")
        audit == log_status("suppressed_dedup", n.rule_id, user, n.scope,
                            "duplicate_in_dedup_window", w, s.nuuid)
        earlier == { s.results[i].nudge_id : i \in 1..Len(s.results) } \ {<<>>}
    IN /\ s.pc = "insert"
       /\ IF ~UniqueViolation(nudges_log, created)
          THEN /\ nudges_log' = nudges_log \cup {created}
               /\ wk' = [wk EXCEPT ![w] =
                            AfterResult(s, EngineResult("created", "none", n.rule_id,
                                                        n.nudge_id, n.dedup_key), 0)]
          ELSE /\ nudges_log' = { r \in nudges_log : r.id \notin earlier } \cup {audit}
               /\ wk' = [wk EXCEPT ![w] =
                            AfterResult(s, EngineResult("suppressed_dedup",
                                                        "duplicate_in_dedup_window",
                                                        n.rule_id, <<>>, n.dedup_key), 2)]
       /\ UNCHANGED <<notifications, delivery_log, day, nreceived, seedvars, call>>

\* The dedup insert of _run_single_rule: add the NudgeLog row with status
\* created under the dedup key and commit; on IntegrityError roll back, write
\* a suppressed_dedup audit row and return SUPPRESSED_DEDUP.
insert_nudge(w) ==
    LET s == wk[w]
        user == s.evt.user_id
        n == s.nudge
        created == NudgeLogRow(n.nudge_id, n.rule_id, user, n.dedup_key, "created", "none")
        audit == log_status("suppressed_dedup", n.rule_id, user, n.scope,
                            "duplicate_in_dedup_window", w, s.nuuid)
    IN /\ s.pc = "insert"
       /\ IF ~UniqueViolation(nudges_log, created)
          THEN /\ nudges_log' = nudges_log \cup {created}
               /\ wk' = [wk EXCEPT ![w] =
                            AfterResult(s, EngineResult("created", "none", n.rule_id,
                                                        n.nudge_id, n.dedup_key), 0)]
          ELSE IF UniqueViolation(nudges_log, audit)
          THEN /\ wk' = [wk EXCEPT ![w] = Raised(s, "IntegrityError")]
               /\ UNCHANGED nudges_log
          ELSE /\ nudges_log' = nudges_log \cup {audit}
               /\ wk' = [wk EXCEPT ![w] =
                            AfterResult(s, EngineResult("suppressed_dedup",
                                                        "duplicate_in_dedup_window",
                                                        n.rule_id, <<>>, n.dedup_key), 2)]
       /\ UNCHANGED <<notifications, delivery_log, day, nreceived, seedvars, call>>

\* ---------------------------------------------------------- orchestrator
MAX_PER_DAY_FALLBACK == 3

\* get_user_pref: the row of (user, community) before the community-NULL row.
get_user_pref(user_id, community_id) ==
    LET own == { p \in UserPreferences :
                   p.user_id = user_id /\ p.community_id = community_id
                   /\ community_id # NoCommunity }
        generic == { p \in UserPreferences :
                       p.user_id = user_id /\ p.community_id = NoCommunity }
    IN IF own # {} THEN own ELSE generic

\* can_send_today(sent_today, max_per_day): the cap is reached at max_per_day.
can_send_today(sent_today, max_per_day) == sent_today < max_per_day

\* A cap that ignores the preference row of the user.
user_max_per_day_Fallback(n) == MAX_PER_DAY_FALLBACK

\* pref.max_per_day if pref else 3
user_max_per_day(n) ==
    LET prefs == get_user_pref(n.user_id, n.community_id)
    IN IF prefs # {} THEN (CHOOSE p \in prefs : TRUE).max_per_day
       ELSE MAX_PER_DAY_FALLBACK

IsPrefix(p, t) == Len(p) <= Len(t) /\ SubSeq(t, 1, Len(p)) = p

WEB == <<"w", "e", "b", ":">>

dest_prefix(n) ==
    IF n.community_id # NoCommunity
    THEN WEB \o n.user_id \o <<":">> \o n.community_id
    ELSE WEB \o n.user_id

\* A count of every delivery attempt under the prefix, whatever its status
\* and day.
sent_today_Attempts(rows, prefix, today) ==
    Cardinality({ d \in rows : IsPrefix(prefix, d.destination) })

\* COUNT of delivery_log rows with status sent, destination LIKE prefix%,
\* date(sent_at) = today.
sent_today(rows, prefix, today) ==
    Cardinality({ d \in rows : d.status = "sent" /\ IsPrefix(prefix, d.destination)
                               /\ d.sent_day = today })

CreatedResults(results) ==
    SelectSeq(results, LAMBDA r : r.status = "created")

\* A route that answers after the first orchestrate call of a batch.
AfterOrchestrate_FirstOnly(s, njobs) ==
    [s EXCEPT !.orchestrated = s.orchestrated + 1, !.jobs = s.jobs + njobs,
              !.nuuid = s.nuuid + 1, !.pc = "done",
              !.http = IF s.jobs + njobs = 0 THEN 202 ELSE 200]

\* The state of a worker after orchestrate returned for one created nudge; the
\* route answers 202 when no nudge got a delivery job and 200 otherwise.
AfterOrchestrate(s, njobs) ==
    LET done == s.orchestrated + 1
        jobs == s.jobs + njobs
    IN IF done < Len(CreatedResults(s.results))
       THEN [s EXCEPT !.orchestrated = done, !.jobs = jobs, !.nuuid = s.nuuid + 1]
       ELSE [s EXCEPT !.orchestrated = done, !.jobs = jobs, !.nuuid = s.nuuid + 1,
                      !.pc = "done", !.http = IF jobs = 0 THEN 202 ELSE 200]

\* orchestrate(db, nudge_id), called by the route for each created result in
\* turn.  scalar_one() on the notifications table raises unless exactly one
\* row is linked to the nudge; the engine inserts none, so in every state the
\* engine can produce the call ends there.  Past the lookup: rate limit
\* (the suppressed DeliveryLog row is given the function utc_now as
\* created_at, which the commit rejects), else the publisher writes and
\* commits its DeliveryLog row (send_webpush), and the notification status
\* follows its result in a second commit; a request cancelled between the
\* two commits leaves the row with the status unchanged.
orchestrate(w) ==
    LET s == wk[w]
        r == CreatedResults(s.results)[s.orchestrated + 1]
        nrows == { n \in nudges_log : n.id = r.nudge_id }
        notifs == { x \in notifications : x.nudge_log_id = r.nudge_id }
    IN /\ s.pc = "orchestrate"
       /\ IF Cardinality(nrows) # 1 \/ Cardinality(notifs) # 1
          THEN /\ wk' = [wk EXCEPT ![w] =
                            Raised(s, IF Cardinality(nrows) > 1 \/ Cardinality(notifs) > 1
                                      THEN "MultipleResultsFound" ELSE "NoResultFound")]
               /\ UNCHANGED <<notifications, delivery_log>>
          ELSE LET n == CHOOSE x \in nrows : TRUE
                   notification == CHOOSE x \in notifs : TRUE
                   max_per_day == user_max_per_day(n)
                   prefix == dest_prefix(n)
               IN IF ~can_send_today(sent_today(delivery_log, prefix, day), max_per_day)
                  THEN /\ wk' = [wk EXCEPT ![w] = Raised(s, "DBAPIError")]
                       /\ UNCHANGED <<notifications, delivery_log>>
                  ELSE \E result \in {"sent", "failed"} :
                         /\ delivery_log' = delivery_log \cup
                              {[id |-> Hex(w, s.nuuid), nudge_id |-> n.id,
                                channel |-> "webpush", destination |-> prefix,
                                status |-> result,
                                error |-> IF result = "sent" THEN "none"
                                          ELSE "no_subscriptions",
                                sent_day |-> IF result = "sent" THEN day ELSE 0]}
                         /\ \/ /\ notifications' = (notifications \ {notification}) \cup
                                     {[notification EXCEPT !.status = result]}
                               /\ wk' = [wk EXCEPT ![w] = AfterOrchestrate(s, 1)]
                            \/ /\ notifications' = notifications
                               /\ wk' = [wk EXCEPT ![w] =
                                            [s EXCEPT !.pc = "aborted",
                                                      !.at = "orchestrate",
                                                      !.nuuid = s.nuuid + 1]]
       /\ UNCHANGED <<nudges_log, day, nreceived, seedvars, call>>

\* ingest_event when no result is created: the response code from the set of
\* result statuses.
response_code(results) ==
    LET statuses == { results[i].status : i \in 1..Len(results) }
    IN IF statuses = {"not_triggered"} THEN 204
       ELSE IF statuses = {"suppressed_dedup"} THEN 409
       ELSE IF "missing_facts" \in statuses THEN 422
       ELSE IF "unknown_scenario" \in statuses THEN 400
       ELSE 500

respond(w) ==
    /\ wk[w].pc = "respond"
    /\ wk' = [wk EXCEPT ![w] = [wk[w] EXCEPT !.pc = "done",
                                              !.http = response_code(wk[w].results)]]
    /\ UNCHANGED <<nudges_log, notifications, delivery_log, day, nreceived, seedvars, call>>

\* The request is cancelled between two awaits: nothing more is written.
abort(w) ==
    /\ wk[w].pc \in {"engine", "rule", "insert", "orchestrate", "respond"}
    /\ wk' = [wk EXCEPT ![w] = [wk[w] EXCEPT !.pc = "aborted", !.at = wk[w].pc]]
    /\ UNCHANGED <<nudges_log, notifications, delivery_log, day, nreceived, seedvars, call>>

\* The wall clock passes to the next day.
tick ==
    /\ day < Len(Clock)
    /\ day' = day + 1
    /\ UNCHANGED <<nudges_log, notifications, delivery_log, nreceived, wk, seedvars, call>>

Next ==
    \/ \E w \in Workers, e \in Events : Receive(w, e)
    \/ \E w \in Workers : run_engine_batch(w)
    \/ \E w \in Workers : run_single_rule(w)
    \/ \E w \in Workers : insert_nudge(w)
    \/ \E w \in Workers : orchestrate(w)
    \/ \E w \in Workers : respond(w)
    \/ \E w \in Workers : abort(w)
    \/ tick

Spec == Init /\ [][Next]_vars

\* -------------------------------------------------------- seed payloads
R_SL == <<"a", "/", "b">>     \* a rule the seed adds

P_New ==
    [rules |-> <<RuleSeed(R_SL, "absent", "static_message", "daily")>>,
     templates |-> <<TemplateSeed(<<>>, R_SL, <<>>, "hello")>>,
     preferences |-> <<PreferenceSeed(U3, NoCommunity, <<>>, 0 - 1)>>,
     overrides |-> <<OverrideSeed(R_SL, COMM1, "false")>>]

P_Update ==
    [rules |-> <<RuleSeed(R_UP, "false", "imported_up", "weekly")>>,
     templates |-> <<TemplateSeed(<<>>, R_UP, <<" ", "i", "t", " ">>, "ciao")>>,
     preferences |-> <<PreferenceSeed(U1, NoCommunity, <<" ">>, 5),
                       PreferenceSeed(U2, COMM1, <<" ", "i", "t">>, 1)>>,
     overrides |-> <<OverrideSeed(R_UP, COMM2, "absent")>>]

P_Repeated ==
    [rules |-> <<>>,
     templates |-> <<TemplateSeed(<<"x">>, R_ST, IT, "uno"),
                     TemplateSeed(<<"y">>, R_ST, IT, "due")>>,
     preferences |-> <<PreferenceSeed(U3, NoCommunity, IT, 1),
                       PreferenceSeed(U3, NoCommunity, <<>>, 2)>>,
     overrides |-> <<OverrideSeed(R_UP, COMM2, "true"),
                     OverrideSeed(R_UP, COMM2, "absent")>>]

P_Orphan ==
    [rules |-> <<>>,
     templates |-> <<TemplateSeed(<<>>, S_XX, EN, "lost")>>,
     preferences |-> <<PreferenceSeed(U4, COMM2, EN, 4)>>,
     overrides |-> <<>>]

P_OverridesOnly ==
    [rules |-> <<>>, templates |-> <<>>, preferences |-> <<>>,
     overrides |-> <<OverrideSeed(R_ST, COMM1, "null")>>]

SeedPayloads == {P_New, P_Update, P_Repeated, P_Orphan, P_OverridesOnly}

\* The constraints a commit enforces: primary keys, uq_template_rule_lang,
\* uq_user_pref_user_community (NULL communities are distinct for it),
\* uq_rule_override, and the foreign keys to rules.
ConstraintsHold(r, t, p, o) ==
    /\ \A x \in BagToSet(r) : CountMatching(r, {"id"}, x) = 1
    /\ \A x \in BagToSet(t) :
           /\ CountMatching(t, {"id"}, x) = 1
           /\ CountMatching(t, {"rule_id", "lang"}, x) = 1
           /\ \E y \in BagToSet(r) : y.id = x.rule_id
    /\ \A x \in BagToSet(p) :
           x.community_id # NoCommunity =>
               CountMatching(p, {"user_id", "community_id"}, x) = 1
    /\ \A x \in BagToSet(o) :
           /\ CountMatching(o, {"rule_id", "community_id"}, x) = 1
           /\ \E y \in BagToSet(r) : y.id = x.rule_id

\* The upserts of one seeding in one transaction: the tables after its
\* commit, or the tables as they were when an upsert raised or the commit
\* was refused.
Seeded(r, t, p, o) ==
    IF ~r.raised /\ ~t.raised /\ ~p.raised /\ ~o.raised
       /\ ConstraintsHold(r.rows, t.rows, p.rows, o.rows)
    THEN <<r.rows, t.rows, p.rows, o.rows>>
    ELSE <<rules, templates, user_preferences, rule_overrides>>

\* POST /admin/seed/apply: rules, templates, preferences, overrides, commit.
seed_apply(payload) ==
    LET after == Seeded(UpsertAll("rules", rules, payload.rules),
                        UpsertAll("templates", templates, payload.templates),
                        UpsertAll("user_preferences", user_preferences,
                                  payload.preferences),
                        UpsertAll("rule_overrides", rule_overrides,
                                  payload.overrides))
    IN /\ Len(applied) < MaxSeeds
       /\ applied' = Append(applied, [via |-> "seed_apply", payload |-> payload])
       /\ rules' = after[1]
       /\ templates' = after[2]
       /\ user_preferences' = after[3]
       /\ rule_overrides' = after[4]
       /\ UNCHANGED <<enginevars, call>>

\* auto_seed at startup: rules, templates and preferences of the seed
\* directory, commit; nothing when the three are empty.
auto_seed(payload) ==
    LET after == Seeded(UpsertAll("rules", rules, payload.rules),
                        UpsertAll("templates", templates, payload.templates),
                        UpsertAll("user_preferences", user_preferences,
                                  payload.preferences),
                        Upserted(rule_overrides))
        skip == payload.rules = <<>> /\ payload.templates = <<>>
                /\ payload.preferences = <<>>
    IN /\ Len(applied) < MaxSeeds
       /\ applied' = Append(applied, [via |-> "auto_seed", payload |-> payload])
       /\ rules' = IF skip THEN rules ELSE after[1]
       /\ templates' = IF skip THEN templates ELSE after[2]
       /\ user_preferences' = IF skip THEN user_preferences ELSE after[3]
       /\ UNCHANGED rule_overrides
       /\ UNCHANGED <<enginevars, call>>

\* Seedings one after the other.
NextSeed ==
    \/ \E payload \in SeedPayloads : seed_apply(payload)
    \/ \E payload \in SeedPayloads : auto_seed(payload)

SpecSeed == Init /\ [][NextSeed]_vars

\* One worker handling one request after the other.
NextSeq ==
    \/ \E e \in EventsSeq : Receive(1, e)
    \/ run_engine_batch(1)
    \/ run_single_rule(1)
    \/ insert_nudge(1)
    \/ orchestrate(1)
    \/ respond(1)

SpecSeq == Init /\ [][NextSeq]_vars

\* ------------------------------------------- time inference on its own
\* What a time key of the facts may hold.
TimeValues == {None, Str(<<>>), Num(2026), D1, D1Padded, W08, M02, Y2024, BadTime}

TimeFacts(t, d, w, p) ==
    [Facts(R_UP, t, Num(25)) EXCEPT !.date = d, !.week = w, !.period = p]

\* The result of a call that has not returned.
Pending == [returned |-> FALSE]

InitTime ==
    /\ InitDb
    /\ \E t \in TimeValues, d \in TimeValues, w \in TimeValues, p \in TimeValues :
           call = [fn |-> "infer_time_scope", arg |-> TimeFacts(t, d, w, p),
                   ret |-> Pending]

\* run_engine_batch on the time keys: the inferred time scope and, when
\* there is one, the normalized copy of the facts the rules are run on.
infer_and_normalize ==
    /\ call.fn = "infer_time_scope" /\ call.ret = Pending
    /\ LET ts == infer_time_scope(call.arg)
       IN call' = [call EXCEPT !.ret =
                      [returned |-> TRUE, ts |-> ts,
                       facts_in |-> IF ts = NoTimeScope THEN call.arg
                                    ELSE normalize_time_fields(call.arg, ts)]]
    /\ UNCHANGED <<enginevars, seedvars>>

NextTime == infer_and_normalize

SpecTime == InitTime /\ [][NextTime]_vars

\* ------------------------------------------- the sent count on its own
U10 == <<"u", "1", "0">>      \* no preference row; its id starts with the id of U1

\* A created nudges_log row of a user, the k-th of the table.
CountNudge(k, user) ==
    NudgeLogRow(Hex(0, k), R_UP, user, compute_dedup_key(R_UP, user, NatToStr(k)),
                "created", "none")

\* What the orchestrator or the publisher left in delivery_log for a nudge:
\* a delivery sent on a day of Clock, a failed attempt (send_webpush writes
\* sent_at = None), a rate_limited suppressed row, or no row.
NoDelivery == [status |-> "none", error |-> "none", sent_day |-> 0]

Deliveries ==
    { [status |-> "sent", error |-> "none", sent_day |-> d] : d \in 1..Len(Clock) }
    \cup { [status |-> "failed", error |-> "no_subscriptions", sent_day |-> 0],
           [status |-> "suppressed", error |-> "rate_limited", sent_day |-> 0],
           NoDelivery }

\* The delivery_log rows of a sequence of nudges with their deliveries; the
\* destination of a row is the one orchestrate computed for its nudge.
DeliveryRows(ns, ds) ==
    { [id |-> Hex(0, Len(ns) + i), nudge_id |-> ns[i].id,
       channel |-> IF ds[i].status = "suppressed" THEN "web" ELSE "webpush",
       destination |-> dest_prefix(ns[i]), status |-> ds[i].status,
       error |-> ds[i].error, sent_day |-> ds[i].sent_day]
      : i \in { j \in 1..Len(ns) : ds[j] # NoDelivery } }

\* Earlier nudges of two users, and the nudge orchestrate is called for.
CountNudges == <<CountNudge(1, U1), CountNudge(2, U1), CountNudge(3, U10),
                 CountNudge(4, U10)>>

InitCount ==
    /\ InitDb
    /\ \E d1 \in Deliveries, d2 \in Deliveries, d3 \in Deliveries, d4 \in Deliveries,
          user \in {U1, U10}, today \in 1..Len(Clock) :
           call = [fn |-> "sent_today",
                   arg |-> [nudges |-> CountNudges,
                            rows |-> DeliveryRows(CountNudges, <<d1, d2, d3, d4>>),
                            n |-> CountNudge(5, user), today |-> today],
                   ret |-> Pending]

\* orchestrate from the preference lookup to the rate-limit test: the cap of
\* the user, the count of the rows sent today under the destination prefix,
\* and whether the notification may be sent.
count_sent_today ==
    /\ call.fn = "sent_today" /\ call.ret = Pending
    /\ LET a == call.arg
           cnt == sent_today(a.rows, dest_prefix(a.n), a.today)
       IN call' = [call EXCEPT !.ret =
                      [returned |-> TRUE, sent_today |-> cnt,
                       max_per_day |-> user_max_per_day(a.n),
                       can_send |-> can_send_today(cnt, user_max_per_day(a.n))]]
    /\ UNCHANGED <<enginevars, seedvars>>

NextCount == count_sent_today

SpecCount == InitCount /\ [][NextCount]_vars

\* --------------------------------- the orchestrator behind the engine
\* The dedup insert as the specification of the engine states it: the
\* NudgeLog row with status created and the paired Notification row, with
\* status pending, are inserted in one transaction; a uniqueness violation
\* rolls both back and leaves the suppressed_dedup audit row.
insert_nudge_pair(w) ==
    LET s == wk[w]
        user == s.evt.user_id
        n == s.nudge
        created == NudgeLogRow(n.nudge_id, n.rule_id, user, n.dedup_key, "created", "none")
        paired == [id |-> Hex(w, s.nuuid), nudge_log_id |-> n.nudge_id,
                   user_id |-> user, status |-> "pending"]
        audit == log_status("suppressed_dedup", n.rule_id, user, n.scope,
                            "duplicate_in_dedup_window", w, s.nuuid)
    IN /\ s.pc = "insert"
       /\ IF ~UniqueViolation(nudges_log, created)
          THEN /\ nudges_log' = nudges_log \cup {created}
               /\ notifications' = notifications \cup {paired}
               /\ wk' = [wk EXCEPT ![w] =
                            AfterResult(s, EngineResult("created", "none", n.rule_id,
                                                        n.nudge_id, n.dedup_key), 1)]
          ELSE IF UniqueViolation(nudges_log, audit)
          THEN /\ wk' = [wk EXCEPT ![w] = Raised(s, "IntegrityError")]
               /\ UNCHANGED <<nudges_log, notifications>>
          ELSE /\ nudges_log' = nudges_log \cup {audit}
               /\ notifications' = notifications
               /\ wk' = [wk EXCEPT ![w] =
                            AfterResult(s, EngineResult("suppressed_dedup",
                                                        "duplicate_in_dedup_window",
                                                        n.rule_id, <<>>, n.dedup_key), 2)]
       /\ UNCHANGED <<delivery_log, day, nreceived, seedvars, call>>

\* Events of users with a cap of two (u1), of zero (u4) and of three (u10,
\* no preference row).
O_U1Combo ==
    Event(U1, Attr(NoCommunity), [Facts(S_CB, D1, Num(25)) EXCEPT !.lang = Str(EN)])
O_U1Up == Event(U1, Attr(NoCommunity), Facts(R_UP, D2, Num(25)))
O_U10Combo == Event(U10, Attr(NoCommunity), Facts(S_CB, D1, Num(25)))

EventsOrch == {O_U1Combo, O_U1Up, O_U10Combo, E_Capped}

\* The workers with the orchestrator reached: every orchestrate call runs
\* from its lookups to its last commit without another call in between.
NextOrch ==
    \/ \E w \in Workers, e \in EventsOrch : Receive(w, e)
    \/ \E w \in Workers : run_engine_batch(w)
    \/ \E w \in Workers : run_single_rule(w)
    \/ \E w \in Workers : insert_nudge_pair(w)
    \/ \E w \in Workers : orchestrate(w)
    \/ \E w \in Workers : respond(w)
    \/ tick

SpecOrch == Init /\ [][NextOrch]_vars

\* ----------------------------------------------------------- properties
\* The engine call of worker w has ended: it returned its results or raised.
EngineEnded(w) ==
    /\ wk[w].pc \in {"orchestrate", "respond", "done", "faulted"}
    /\ wk[w].batch \in {"returned", "raised"}

Statuses(w) == [i \in 1..Len(wk[w].results) |-> wk[w].results[i].status]

\* The rules run_engine_batch runs for an event, in order.
ResolvedRules(e) ==
    LET ts == infer_time_scope(e.facts)
    IN IF validate_facts_contract(e.facts) # <<>> \/ ts = NoTimeScope THEN <<>>
       ELSE filter_rule_ids_by_definition(
                resolve_rule_ids_from_scenario(e.facts.scenario.s), ts.frequency)

\* The event resolves to one rule, of window daily, with a template in the
\* language resolved for the user, which its facts trigger.
TriggersDaily(e) ==
    LET ids == ResolvedRules(e)
        rl == resolve_lang(e.user_id, e.facts)
    IN /\ Len(ids) = 1
       /\ rl.raised = "none"
       /\ load_rule_and_template(ids[1], rl.lang) = "ok"
       /\ LET rule == RuleById(ids[1])
              facts == normalize_time_fields(e.facts, infer_time_scope(e.facts))
              ev == evaluate_rule(rule, facts)
          IN /\ rule.definition.dedup_window = "daily"
             /\ validate_required_facts(rule, facts) = <<>>
             /\ ev.raised = "none"
             /\ ev.triggered

\* Both workers have each handled one event, the same one, and no other event
\* was received.
BothRan(e) ==
    /\ nreceived = 2
    /\ \A w \in Workers : wk[w].evt = e /\ EngineEnded(w)

\* C1: when two workers run the engine on the identical event of a
\* triggering rule of window daily, and nothing else was submitted, exactly
\* one of them returns CREATED and the other SUPPRESSED_DEDUP.
C1_ExactlyOneCreated ==
    \A e \in Events :
        (TriggersDaily(e) /\ BothRan(e)) =>
            \E w \in Workers :
                /\ wk[w].batch = "returned" /\ Statuses(w) = <<"created">>
                /\ \A v \in Workers \ {w} :
                       wk[v].batch = "returned" /\ Statuses(v) = <<"suppressed_dedup">>

\* Both workers ran the engine on the event the route parses, and both calls
\* raised AttributeError.
C1_BothRaise ==
    /\ BothRan(E_Route)
    /\ \A w \in Workers : wk[w].batch = "raised" /\ wk[w].fault = "AttributeError"

\* The dedup scope a row's key was built from.
ScopeOf(row) ==
    SubSeq(row.dedup_key, Len(row.rule_id) + Len(row.user_id) + 3, Len(row.dedup_key))

\* C2: no two rows of nudges_log share a dedup_key, and at most one row with
\* status created exists per rule, user, community and dedup scope.
C2_DedupKeyUnique ==
    /\ \A a, b \in nudges_log : a.dedup_key = b.dedup_key => a = b
    /\ \A a, b \in nudges_log :
           ( /\ a.status = "created" /\ b.status = "created"
             /\ a.rule_id = b.rule_id /\ a.user_id = b.user_id
             /\ a.community_id = b.community_id /\ ScopeOf(a) = ScopeOf(b) ) => a = b

\* Two workers attempted the insert under one key: one row is created and the
\* other attempt left a suppressed_dedup audit row for the same rule, user and
\* scope.
C2_CollisionRefused ==
    \E a, b \in nudges_log :
        /\ a.status = "created" /\ b.status = "suppressed_dedup"
        /\ a.rule_id = b.rule_id /\ a.user_id = b.user_id
        /\ IsPrefix(<<"a", "t", "t", "e", "m", "p", "t", ":">> \o a.dedup_key, b.dedup_key)
        /\ \A w \in Workers : EngineEnded(w) /\ wk[w].batch = "returned"

TriggersAlways(e) ==
    LET ids == resolve_rule_ids_from_scenario(e.facts.scenario.s)
    IN /\ validate_facts_contract(e.facts) = <<>>
       /\ ids # <<>>
       /\ infer_time_scope(e.facts) # NoTimeScope
       /\ \A i \in 1..Len(ids) :
              /\ \E r \in Rules : r.id = ids[i]
              /\ RuleById(ids[i]).enabled
              /\ RuleById(ids[i]).definition.dedup_window = "always"
              /\ evaluate_rule(RuleById(ids[i]), e.facts).triggered

\* C4: every submission of an event of a triggering rule of window always
\* returns CREATED for it, never SUPPRESSED_DEDUP.
C4_AlwaysNeverDedups ==
    \A w \in Workers :
        (EngineEnded(w) /\ TriggersAlways(wk[w].evt)) =>
            /\ wk[w].batch = "returned"
            /\ wk[w].results # <<>>
            /\ \A i \in 1..Len(wk[w].results) : wk[w].results[i].status = "created"

\* An event of a rule of window always ended as unknown_scenario.
C4_AlwaysUnknownScenario ==
    \E w \in Workers :
        /\ EngineEnded(w) /\ TriggersAlways(wk[w].evt)
        /\ Statuses(w) = <<"unknown_scenario">>
        /\ wk[w].results[1].reason = "no_rule_for_inferred_frequency"

\* Two events alike in user and facts whose objects carry different
\* community ids (None counts as one).
DifferInCommunity(e, f) ==
    /\ e.user_id = f.user_id /\ e.facts = f.facts
    /\ e.community.attr /\ f.community.attr
    /\ e.community.id # f.community.id

EngineResultStatuses ==
    {"created", "not_triggered", "missing_facts", "unknown_scenario", "suppressed_dedup"}

\* C6: for an event whose facts pass the contract and the time-scope
\* inference and that resolves to k >= 1 rules, run_engine_batch returns k
\* results, one per resolved rule in order, each with one of the five
\* statuses, and a result carries a nudge exactly when its status is created.
C6_OneResultPerRule ==
    \A w \in Workers :
        (EngineEnded(w) /\ Len(ResolvedRules(wk[w].evt)) >= 1) =>
            /\ wk[w].batch = "returned"
            /\ Len(wk[w].results) = Len(ResolvedRules(wk[w].evt))
            /\ \A i \in 1..Len(wk[w].results) :
                   /\ wk[w].results[i].rule_id = ResolvedRules(wk[w].evt)[i]
                   /\ wk[w].results[i].status \in EngineResultStatuses
                   /\ (wk[w].results[i].nudge_id # <<>>) <=>
                          (wk[w].results[i].status = "created")

\* The engine raised AttributeError on the event the route parses, which
\* resolves to one rule: the caller gets no result.
C6_RaisedNoResult ==
    \E w \in Workers :
        /\ EngineEnded(w) /\ wk[w].evt = E_Route
        /\ Len(ResolvedRules(wk[w].evt)) = 1
        /\ wk[w].batch = "raised" /\ wk[w].fault = "AttributeError"
        /\ wk[w].results = <<>>

\* The created result orchestrate is called for next, and its nudges_log row.
NextCreated(w) == CreatedResults(wk[w].results)[wk[w].orchestrated + 1]

NudgeRow(id) == CHOOSE n \in nudges_log : n.id = id

\* The user of the nudge has reached max_per_day sent deliveries today.
Capped(w) ==
    LET n == NudgeRow(NextCreated(w).nudge_id)
    IN sent_today(delivery_log, dest_prefix(n), day) >= user_max_per_day(n)

TerminalStatuses == {"sent", "suppressed", "failed"}

Audited(user_id, r) ==
    \E n \in nudges_log :
        /\ n.status = r.status /\ n.reason = r.reason /\ n.user_id = user_id
        /\ n.rule_id = (IF r.rule_id = <<>> THEN NO_RULE ELSE r.rule_id)

\* C10: run_engine_batch raises nothing but a store failure, and every result
\* it returns that is not created has its audit row.
C10_NoRaise ==
    \A w \in Workers :
        /\ (wk[w].batch = "raised") => wk[w].fault = "IntegrityError"
        /\ (wk[w].batch = "returned") =>
               \A i \in 1..Len(wk[w].results) :
                   (wk[w].results[i].status # "created") =>
                       Audited(wk[w].evt.user_id, wk[w].results[i])

\* The engine raised MultipleResultsFound for a user with two preference rows
\* and ValueError for a rule whose threshold is not a number; neither left an
\* audit row.
C10_Raised ==
    \E w, v \in Workers :
        /\ wk[w].evt = E_TwoPrefs /\ wk[w].batch = "raised"
        /\ wk[w].fault = "MultipleResultsFound"
        /\ wk[v].evt = E_BadThreshold /\ wk[v].batch = "raised"
        /\ wk[v].fault = "ValueError"
        /\ nudges_log = {}

\* The engine call of worker w appends one result in this step.
ResultAdded(w) ==
    /\ wk'[w].evt = wk[w].evt
    /\ wk[w].pc \in {"engine", "rule", "insert"}
    /\ Len(wk'[w].results) = Len(wk[w].results) + 1

NewResult(w) == wk'[w].results[Len(wk'[w].results)]

\* C11: every result the engine returns is matched by exactly one nudges_log
\* row inserted in the same step of that call, with the same status and
\* reason; a row of a non-created outcome carries an attempt key that no
\* stored row has, and no audit write fails on the unique constraint.
C11_OneRowPerResult ==
    /\ [](\A w \in Workers : wk[w].fault # "IntegrityError")
    /\ [][ /\ \A w \in Workers :
                  ResultAdded(w) =>
                      \E row \in nudges_log' :
                          /\ row \notin nudges_log
                          /\ nudges_log' = nudges_log \cup {row}
                          /\ row.status = NewResult(w).status
                          /\ row.reason = NewResult(w).reason
                          /\ row.user_id = wk[w].evt.user_id
                          /\ (row.status # "created") =>
                                 /\ IsPrefix(ATTEMPT, row.dedup_key)
                                 /\ \A n \in nudges_log : n.dedup_key # row.dedup_key
                          /\ (row.status = "created") =>
                                 ~IsPrefix(ATTEMPT, row.dedup_key)
           /\ (nudges_log' # nudges_log) => \E w \in Workers : ResultAdded(w)
         ]_vars

\* Worker 1 audited a not_triggered outcome of a rule, user and scope and
\* afterwards created the nudge under the real key of the same rule, user
\* and scope.
C11_AuditThenCreated ==
    \E a, b \in nudges_log :
        /\ a.id = Hex(1, 1) /\ a.status = "not_triggered"
        /\ a.reason = "condition_not_met"
        /\ b.id = Hex(1, 2) /\ b.status = "created"
        /\ a.rule_id = b.rule_id /\ a.user_id = b.user_id
        /\ a.dedup_key = ATTEMPT \o b.dedup_key \o <<":">> \o Hex(1, 0)

NonCreatedStatuses ==
    {"not_triggered", "missing_facts", "unknown_scenario", "suppressed_dedup"}

\* C12: a step that returns a not_triggered, missing_facts, unknown_scenario
\* or suppressed_dedup result records it in nudges_log with its reason, and no
\* step of a request whose results are all non-created changes the set of
\* notifications.
C12_NonCreatedNoNotification ==
    [][\A w \in Workers :
          /\ (ResultAdded(w) /\ NewResult(w).status \in NonCreatedStatuses) =>
                 /\ NewResult(w).reason # "none"
                 /\ \E row \in nudges_log' \ nudges_log :
                        /\ row.status = NewResult(w).status
                        /\ row.reason = NewResult(w).reason
                        /\ row.rule_id = (IF NewResult(w).rule_id = <<>> THEN NO_RULE
                                          ELSE NewResult(w).rule_id)
          /\ ( /\ wk'[w] # wk[w]
               /\ \A i \in 1..Len(wk'[w].results) :
                      wk'[w].results[i].status \in NonCreatedStatuses ) =>
                 notifications' = notifications
      ]_vars

\* A request ended with a suppressed_dedup result and was answered 409; the
\* audit row with its reason is stored and there is no notification.
C12_SuppressedAudited ==
    \E w \in Workers :
        /\ wk[w].pc = "done" /\ wk[w].http = 409
        /\ Statuses(w) = <<"suppressed_dedup">>
        /\ \E n \in nudges_log :
               /\ n.status = "suppressed_dedup"
               /\ n.reason = "duplicate_in_dedup_window"
               /\ n.id = Hex(w, wk[w].nuuid - 1)
        /\ notifications = {}

\* Some rule or the settings mapping declares the scenario.
ScenarioDeclared(scenario) ==
    \/ ScenarioMapped(scenario)
    \/ \E r \in Rules : \E i \in 1..Len(r.definition.scenarios) :
           r.definition.scenarios[i] = scenario

ValidFactsAndTime(e) ==
    validate_facts_contract(e.facts) = <<>> /\ infer_time_scope(e.facts) # NoTimeScope

SingleUnknownScenario(w, reason) ==
    /\ Len(wk[w].results) = 1
    /\ wk[w].results[1].status = "unknown_scenario"
    /\ wk[w].results[1].reason = reason
    /\ wk[w].results[1].rule_id = <<>>
    /\ Audited(wk[w].evt.user_id, wk[w].results[1])

\* C13: for an event with valid facts and time scope, a scenario no rule
\* declares gives the single result unknown_scenario / scenario_not_mapped,
\* and a declared scenario with no enabled rule of the inferred frequency
\* gives the single result unknown_scenario / no_rule_for_inferred_frequency;
\* both are audited.
C13_UnknownScenarioReasons ==
    \A w \in Workers :
        ( /\ EngineEnded(w) /\ wk[w].batch = "returned"
          /\ ValidFactsAndTime(wk[w].evt)
          /\ ResolvedRules(wk[w].evt) = <<>> ) =>
            IF ScenarioDeclared(wk[w].evt.facts.scenario.s)
            THEN SingleUnknownScenario(w, "no_rule_for_inferred_frequency")
            ELSE SingleUnknownScenario(w, "scenario_not_mapped")

\* A scenario that no rule and no mapping entry declares ended as
\* unknown_scenario with reason no_rule_for_inferred_frequency.
C13_UndeclaredOtherReason ==
    \E w \in Workers :
        /\ EngineEnded(w) /\ wk[w].evt = E_Unmapped
        /\ ~ScenarioDeclared(wk[w].evt.facts.scenario.s)
        /\ SingleUnknownScenario(w, "no_rule_for_inferred_frequency")

\* The rules the engine call of worker w has looked at or is about to.
RulesRun(w) ==
    { wk[w].results[i].rule_id : i \in 1..Len(wk[w].results) } \cup
    { wk[w].todo[i] : i \in 1..Len(wk[w].todo) }

\* C14: every rule run_engine_batch runs for an event is an enabled rule whose
\* dedup_window equals the frequency inferred from the event, so the rules run
\* for one event all have the same window.
C14_RunOnlyInferredFrequency ==
    \A w \in Workers :
        (wk[w].batch \in {"running", "returned", "raised"}) =>
            \A rid \in RulesRun(w) \ {<<>>} :
                /\ \E r \in Rules : r.id = rid
                /\ RuleById(rid).enabled
                /\ RuleById(rid).definition.dedup_window
                       = infer_time_scope(wk[w].evt.facts).frequency

\* An event whose scenario maps to a yearly, a daily and a disabled rule and
\* whose time is a day ended with the single result of the daily rule.
C14_OnlyDailyVariantRun ==
    \E w \in Workers :
        /\ EngineEnded(w) /\ wk[w].batch = "returned" /\ wk[w].evt = E_Mixed
        /\ Len(wk[w].results) = 1
        /\ wk[w].results[1].rule_id = R_UP
        /\ wk[w].results[1].status = "created"

\* C15: a rule whose scenarios list is empty is never run for any event and
\* no nudge is created for it.
C15_EmptyScenariosNeverResolved ==
    /\ \A w \in Workers :
           \A rid \in RulesRun(w) \ {<<>>} :
               (\E r \in Rules : r.id = rid) => RuleById(rid).definition.scenarios # <<>>
    /\ \A n \in nudges_log :
           (n.status = "created") => RuleById(n.rule_id).definition.scenarios # <<>>

\* An event whose scenario is the id of a rule with an empty scenarios list
\* ended with a created nudge for that rule.
C15_ResolvedById ==
    \E w \in Workers :
        /\ EngineEnded(w) /\ wk[w].evt = E_NoScenarios
        /\ RuleById(R_NS).definition.scenarios = <<>>
        /\ Len(wk[w].results) = 1
        /\ wk[w].results[1].rule_id = R_NS
        /\ wk[w].results[1].status = "created"
        /\ \E n \in nudges_log : n.rule_id = R_NS /\ n.status = "created"

\* The shape of a text: every digit replaced by "d".
Shape(s) == [i \in 1..Len(s) |-> IF s[i] \in Digits THEN "d" ELSE s[i]]

\* The frequency of a text by its pattern: YYYY-MM-DD, YYYY-Www, YYYY-MM, YYYY.
FrequencyOf(s) ==
    IF Shape(s) = <<"d", "d", "d", "d", "-", "d", "d", "-", "d", "d">> THEN "daily"
    ELSE IF Shape(s) = <<"d", "d", "d", "d", "-", "W", "d", "d">> THEN "weekly"
    ELSE IF Shape(s) = <<"d", "d", "d", "d", "-", "d", "d">> THEN "monthly"
    ELSE IF Shape(s) = <<"d", "d", "d", "d">> THEN "yearly"
    ELSE "none"

\* The time value of the facts: the first truthy of time, date, week, period.
TimeValue(facts) == Or(facts.time, Or(facts.date, Or(facts.week, facts.period)))

\* The engine call of w returned for an event whose facts pass the contract,
\* and what the claim on time inference says of it when the text v is what
\* the pattern is matched against.
TimeInferenceAs(w, v) ==
    LET ts == infer_time_scope(wk[w].evt.facts)
    IN IF FrequencyOf(v) = "none"
       THEN /\ ts = NoTimeScope
            /\ Len(wk[w].results) = 1
            /\ wk[w].results[1].status = "missing_facts"
            /\ wk[w].results[1].reason = "missing_or_invalid_time_scope"
            /\ wk[w].results[1].rule_id = <<>>
            /\ Audited(wk[w].evt.user_id, wk[w].results[1])
       ELSE /\ ts = [frequency |-> FrequencyOf(v), scope |-> v]
            /\ \A i \in 1..Len(wk[w].results) :
                   wk[w].results[i].reason # "missing_or_invalid_time_scope"
            /\ (wk[w].nudge # NoNudge \/ wk[w].todo # <<>> \/ HasCreated(wk[w].results))
                   => wk[w].facts.time = Str(v)

ReturnedOnValidFacts(w) ==
    /\ EngineEnded(w) /\ wk[w].batch = "returned"
    /\ validate_facts_contract(wk[w].evt.facts) = <<>>

ResultScope(r, user_id) ==
    SubSeq(r.dedup_key, Len(r.rule_id) + Len(user_id) + 3, Len(r.dedup_key))

AbsentRequired(rule, facts) ==
    { rule.definition.required_facts[i] : i \in
        { j \in 1..Len(rule.definition.required_facts) :
            facts[rule.definition.required_facts[j]].tag = "none" } }

SeqToSet(q) == { q[i] : i \in 1..Len(q) }

\* C18: when _run_single_rule has loaded the rule and a required fact is
\* absent, the result is missing_facts listing exactly the absent keys and
\* the step neither evaluates (no evaluator reason, no exception of the
\* evaluator) nor reaches the dedup insert; when all are present the outcome
\* is the evaluator's.
C18_RequiredFactsFirst ==
    [][\A w \in Workers :
          ( /\ wk[w].pc = "rule" /\ wk'[w] # wk[w] /\ wk'[w].pc # "aborted"
            /\ load_rule_and_template(Head(wk[w].todo), wk[w].lang) = "ok" ) =>
              LET rule == RuleById(Head(wk[w].todo))
                  ev == evaluate_rule(rule, wk[w].facts)
              IN IF AbsentRequired(rule, wk[w].facts) # {}
                 THEN /\ ResultAdded(w)
                      /\ NewResult(w).status = "missing_facts"
                      /\ NewResult(w).reason = "missing_required_facts"
                      /\ SeqToSet(NewResult(w).missing)
                             = AbsentRequired(rule, wk[w].facts)
                      /\ Len(NewResult(w).missing)
                             = Cardinality(AbsentRequired(rule, wk[w].facts))
                      /\ wk'[w].pc \notin {"insert", "faulted"}
                 ELSE IF ev.raised # "none"
                 THEN wk'[w].pc = "faulted" /\ wk'[w].fault = ev.raised
                 ELSE IF ~ev.triggered
                 THEN /\ ResultAdded(w)
                      /\ NewResult(w).status = "not_triggered"
                      /\ NewResult(w).reason = ev.reason
                 ELSE wk'[w].pc \in {"insert", "faulted"}
      ]_vars

\* A rule whose evaluator raises on its threshold returned missing_facts
\* listing the one absent required fact, threshold_pct: the evaluator did not
\* run.
C18_MissingBeforeEvaluate ==
    \E w \in Workers :
        /\ EngineEnded(w) /\ wk[w].evt = E_ReqOne
        /\ evaluate_rule(RuleById(R_RB), wk[w].evt.facts).raised = "ValueError"
        /\ Statuses(w) = <<"missing_facts">>
        /\ wk[w].results[1].missing = <<"threshold_pct">>

\* What an imported_up or imported_down rule with numeric threshold t says of
\* delta_pct: "triggered" or the reason of not_triggered.
ThresholdVerdict(kind, t, delta) ==
    IF delta.tag = "none" THEN "missing_fact:delta_pct"
    ELSE IF ~FloatOk(delta) THEN "invalid_fact:delta_pct"
    ELSE IF kind = "imported_up" /\ Float(delta) > t THEN "triggered"
    ELSE IF kind = "imported_down" /\ Float(delta) < t THEN "triggered"
    ELSE "condition_not_met"

ThresholdOf(rule) ==
    IF rule.definition.threshold_pct.tag # "none" THEN Float(rule.definition.threshold_pct)
    ELSE IF rule.definition.kind = "imported_up" THEN THRESHOLD_UP_DEFAULT
    ELSE THRESHOLD_DOWN_DEFAULT

\* C19: the result of a rule of kind imported_up (imported_down) with numeric
\* threshold t, default 20 (-5), is triggered exactly when delta_pct is
\* numeric and strictly greater (less) than t; otherwise it is not_triggered
\* with reason missing_fact:delta_pct, invalid_fact:delta_pct or
\* condition_not_met.
C19_ThresholdEvaluators ==
    \A w \in Workers :
        (EngineEnded(w) /\ wk[w].batch = "returned") =>
            \A i \in 1..Len(wk[w].results) :
                LET r == wk[w].results[i]
                IN ( /\ r.status \in {"created", "suppressed_dedup", "not_triggered"}
                     /\ RuleById(r.rule_id).definition.kind
                            \in {"imported_up", "imported_down"} ) =>
                       LET rule == RuleById(r.rule_id)
                           verdict == ThresholdVerdict(rule.definition.kind,
                                                       ThresholdOf(rule),
                                                       wk[w].evt.facts.delta_pct)
                       IN IF verdict = "triggered"
                          THEN r.status \in {"created", "suppressed_dedup"}
                          ELSE r.status = "not_triggered" /\ r.reason = verdict

\* delta_pct equal to the threshold was audited as not_triggered /
\* condition_not_met both for imported_up (20) and for imported_down (-5).
C19_AtThresholdNotTriggered ==
    /\ \E n \in nudges_log :
           n.rule_id = R_UP /\ n.status = "not_triggered" /\ n.reason = "condition_not_met"
    /\ \E n \in nudges_log :
           n.rule_id = R_DN /\ n.status = "not_triggered" /\ n.reason = "condition_not_met"
    /\ \E w \in Workers : EngineEnded(w) /\ wk[w].evt \in {E_UpLow, E_DnEq}

Compare(op, a, b) ==
    IF op = "<" THEN a < b
    ELSE IF op = "<=" THEN a <= b
    ELSE IF op = ">" THEN a > b
    ELSE IF op = ">=" THEN a >= b
    ELSE IF op = "==" THEN a = b
    ELSE a # b

\* What one clause {fact_key, op, value} says of the facts: "ok" or its reason.
ClauseVerdict(c, facts) ==
    IF facts[c.fact_key].tag = "none" THEN "missing_fact:" \o c.fact_key
    ELSE IF ~FloatOk(facts[c.fact_key]) \/ ~FloatOk(c.value)
    THEN "invalid_compare:" \o c.fact_key
    ELSE IF Compare(c.op, Float(facts[c.fact_key]), Float(c.value)) THEN "ok"
    ELSE "condition_not_met"

\* The verdict of the ordered conditions list: "triggered" when every clause
\* holds, otherwise the reason of the first clause that does not.
RECURSIVE ConditionsVerdict(_, _)
ConditionsVerdict(conditions, facts) ==
    IF conditions = <<>> THEN "triggered"
    ELSE IF ClauseVerdict(Head(conditions), facts) # "ok"
    THEN ClauseVerdict(Head(conditions), facts)
    ELSE ConditionsVerdict(Tail(conditions), facts)

KNOWN_KINDS ==
    {"static_message", "imported_up", "imported_down", "price_up", "price_down",
     "sunny_pros", "sunny_cons", "extr_event", "kpi_conditions"}

\* C21: a rule whose kind is unknown or empty is evaluated as a passthrough:
\* the evaluation triggers with the facts unchanged and no reason, so the
\* rule's result is never not_triggered.
C21_UnknownKindPassthrough ==
    \A w \in Workers :
        (EngineEnded(w) /\ wk[w].batch = "returned") =>
            \A i \in 1..Len(wk[w].results) :
                LET r == wk[w].results[i]
                    rule == RuleById(r.rule_id)
                IN ( /\ r.status \in {"created", "suppressed_dedup", "not_triggered"}
                     /\ rule.definition.kind \notin KNOWN_KINDS ) =>
                       /\ r.status \in {"created", "suppressed_dedup"}
                       /\ evaluate_rule(rule, wk[w].facts)
                              = Evaluated(TRUE, wk[w].facts, "none")

\* Rules of kind "mystery" and of kind "" both created a nudge.
C21_UnknownKindsCreated ==
    /\ \E n \in nudges_log : n.rule_id = R_MY /\ n.status = "created"
    /\ \E n \in nudges_log : n.rule_id = R_EK /\ n.status = "created"

\* C22: the result of an enabled rule is an unknown_scenario failure exactly
\* when the rule has a template neither in the resolved language nor in the
\* default language en; a rule with only an en template is evaluated for a
\* user whose language is another one.
C22_TemplateFallback ==
    \A w \in Workers :
        (EngineEnded(w) /\ wk[w].batch = "returned") =>
            \A i \in 1..Len(wk[w].results) :
                LET r == wk[w].results[i]
                IN (\E rule \in Rules : rule.id = r.rule_id /\ rule.enabled) =>
                       ( r.status = "unknown_scenario"
                           <=> ( /\ <<r.rule_id, wk[w].lang>> \notin Templates
                                 /\ <<r.rule_id, DEFAULT_LANG>> \notin Templates ) )

\* A rule that has an en template and none in it was run for a user whose
\* language is it; the result is unknown_scenario and the failure is audited.
C22_EnTemplateNotUsed ==
    \E w \in Workers :
        /\ EngineEnded(w) /\ wk[w].batch = "returned"
        /\ wk[w].evt = E_NoTemplate /\ wk[w].lang = IT
        /\ <<R_ST, DEFAULT_LANG>> \in Templates /\ <<R_ST, IT>> \notin Templates
        /\ Len(wk[w].results) = 1
        /\ wk[w].results[1].status = "unknown_scenario"
        /\ wk[w].results[1].reason = "template_not_found"
        /\ \E n \in nudges_log :
               /\ n.rule_id = R_ST /\ n.user_id = U1
               /\ n.status = "unknown_scenario" /\ n.reason = "template_not_found"

\* The facts lack a non-empty string facts_version or scenario.
Malformed(e) == validate_facts_contract(e.facts) # <<>>

\* C23: while an event whose facts lack a non-empty string facts_version or
\* scenario is processed, nothing is written but NudgeLog rows under the
\* __no_rule__ placeholder with status missing_facts, at most one per step;
\* when its processing ends there is exactly one outcome, missing_facts, and
\* such a row exists for the user.
C23_MalformedAudited ==
    [][\A w \in Workers :
         (Malformed(wk'[w].evt) /\ wk'[w] # wk[w]) =>
             /\ notifications' = notifications
             /\ delivery_log' = delivery_log
             /\ Cardinality(nudges_log' \ nudges_log) <= 1
             /\ \A n \in nudges_log' \ nudges_log :
                    n.rule_id = NO_RULE /\ n.status = "missing_facts"
             /\ (wk'[w].pc = "done") =>
                    /\ Statuses(w)' = <<"missing_facts">>
                    /\ \E n \in nudges_log' :
                           /\ n.rule_id = NO_RULE /\ n.status = "missing_facts"
                           /\ n.user_id = wk'[w].evt.user_id
      ]_vars

\* An event without facts_version was answered 422 by the route: no outcome
\* and no NudgeLog row.
C23_RejectedUnaudited ==
    \E w \in Workers :
        /\ wk[w].pc = "done" /\ wk[w].evt = E_NoVersion /\ wk[w].http = 422
        /\ wk[w].results = <<>>
        /\ nudges_log = {}

EffectiveMaxPerDay(user_id, community_id) ==
    LET own == { p \in UserPreferences :
                   p.user_id = user_id /\ p.community_id = community_id }
        generic == { p \in UserPreferences :
                       p.user_id = user_id /\ p.community_id = NoCommunity }
    IN IF own # {} THEN (CHOOSE p \in own : TRUE).max_per_day
       ELSE IF generic # {} THEN (CHOOSE p \in generic : TRUE).max_per_day
       ELSE 3

CodeFor(results, jobs) ==
    LET statuses == { results[i].status : i \in 1..Len(results) }
    IN IF "created" \in statuses THEN (IF jobs = 0 THEN {202} ELSE {200})
       ELSE IF statuses = {"not_triggered"} THEN {204}
       ELSE IF statuses = {"suppressed_dedup"} THEN {409}
       ELSE IF "missing_facts" \in statuses THEN {422}
       ELSE IF "unknown_scenario" \in statuses THEN {400}
       ELSE {500}

C27_AppendOnly ==
    [][ /\ nudges_log \subseteq nudges_log'
        /\ delivery_log \subseteq delivery_log'
        /\ \A x \in notifications :
               \/ x \in notifications'
               \/ /\ \E y \in notifications' : y = [x EXCEPT !.status = y.status]
                  /\ \E w \in Workers : wk[w].pc = "orchestrate" /\ wk'[w] # wk[w]
      ]_vars

\* A created row and the audit row of a later duplicate of the same rule and
\* user are both stored, after the request that wrote the second has ended.
C27_CreatedRowKept ==
    \E n, m \in nudges_log :
        /\ n.status = "created" /\ m.status = "suppressed_dedup"
        /\ n.rule_id = m.rule_id /\ n.user_id = m.user_id /\ n.id # m.id
        /\ \A w \in Workers : wk[w].pc \in {"idle", "done", "faulted", "aborted"}

\* The rows of the tables written by seeding.
Store == <<rules, templates, user_preferences, rule_overrides>>

\* No table holds a row twice or two rows of one logical key.
NoDuplicateRows ==
    /\ \A x \in BagToSet(rules) : CountMatching(rules, {"id"}, x) = 1
    /\ \A x \in BagToSet(templates) :
           CountMatching(templates, {"rule_id", "lang"}, x) = 1
    /\ \A x \in BagToSet(user_preferences) :
           CountMatching(user_preferences, {"user_id", "community_id"}, x) = 1
    /\ \A x \in BagToSet(rule_overrides) :
           CountMatching(rule_overrides, {"rule_id", "community_id"}, x) = 1

\* C28: a seeding that applies the payload of the seeding before it, through
\* the same entry point, leaves the four tables as they are, and no seeding
\* leaves a table with two rows of one logical key.
C28_SeedIdempotent ==
    [][ /\ ( /\ applied # <<>>
             /\ applied' = Append(applied, applied[Len(applied)]) ) => Store' = Store
        /\ NoDuplicateRows'
      ]_vars

\* A payload with a new rule, template, preference and override was applied
\* twice in a row and its rows are stored.
C28_AppliedTwice ==
    /\ Len(applied) >= 2
    /\ applied[Len(applied)] = [via |-> "seed_apply", payload |-> P_New]
    /\ applied[Len(applied) - 1] = applied[Len(applied)]
    /\ \E x \in BagToSet(rules) : x.id = R_SL /\ x.enabled
    /\ \E x \in BagToSet(templates) :
           x.rule_id = R_SL /\ x.lang = EN /\ x.id = tpl_id(R_SL, EN)
    /\ \E x \in BagToSet(user_preferences) :
           x.user_id = U3 /\ x.community_id = NoCommunity /\ x.max_per_day = 3
    /\ \E x \in BagToSet(rule_overrides) :
           x.rule_id = R_SL /\ x.enabled_override = "false"

\* The request of a worker has ended after its engine batch returned.
RequestEnded(w) == wk[w].pc \in {"done", "faulted"} /\ wk[w].batch = "returned"

\* The calls of orchestrate the route has made for the request of a worker:
\* those that returned and the one that raised.
OrchestrateCalls(w) ==
    wk[w].orchestrated + (IF wk[w].pc = "faulted" /\ wk[w].batch = "returned" THEN 1 ELSE 0)

\* The DeliveryLog rows the publisher has written for a nudge, one per send.
PublisherSends(nudge_id) ==
    { d \in delivery_log : d.nudge_id = nudge_id /\ d.channel = "webpush" }

TimeKeys == <<"time", "date", "week", "period">>

\* A key holds a value when it is there and neither empty nor zero.
HoldsValue(v) == v # None /\ v # Str(<<>>) /\ v # Num(0)

\* The position in TimeKeys of the earliest key that holds a value, 0 when
\* none does.
EarliestKey(facts) ==
    IF \E i \in 1..4 : HoldsValue(facts[TimeKeys[i]])
    THEN CHOOSE i \in 1..4 :
             /\ HoldsValue(facts[TimeKeys[i]])
             /\ \A j \in 1..(i - 1) : ~HoldsValue(facts[TimeKeys[j]])
    ELSE 0

\* The time scope of one value taken alone.
ScopeOfValue(v) ==
    IF v.tag = "str" /\ FrequencyOf(Strip(v.s)) # "none"
    THEN [frequency |-> FrequencyOf(Strip(v.s)), scope |-> Strip(v.s)]
    ELSE NoTimeScope

\* C39: the time scope inferred from the facts is the one of the earliest of
\* time, date, week, period that holds a value, taken alone, and putting any
\* other value under a later key leaves it as it is.
C39_EarliestKeyDecides ==
    (call.fn = "infer_time_scope" /\ call.ret # Pending) =>
        LET k == EarliestKey(call.arg)
        IN /\ call.ret.ts = IF k = 0 THEN NoTimeScope
                            ELSE ScopeOfValue(call.arg[TimeKeys[k]])
           /\ \A j \in (k + 1)..4 : \A v \in TimeValues :
                  k # 0 => infer_time_scope([call.arg EXCEPT ![TimeKeys[j]] = v])
                               = call.ret.ts

\* The facts hold a week under time, a day under date and a year under
\* period, and the week was inferred.
C39_TimeBeforeDate ==
    /\ call.fn = "infer_time_scope" /\ call.ret # Pending
    /\ call.arg.time = W08 /\ call.arg.date = D1 /\ call.arg.period = Y2024
    /\ call.ret.ts = [frequency |-> "weekly", scope |-> W08.s]

\* The key a frequency is mirrored into.
KeyOfFrequency(frequency) ==
    CASE frequency = "daily" -> "date"
      [] frequency = "weekly" -> "week"
      [] frequency \in {"monthly", "yearly"} -> "period"

\* C40: when a time scope is inferred, the facts the rules are run on are the
\* input facts with time and the key of the inferred frequency set to the
\* canonical scope and every other key as it was, and the facts of the
\* caller are as they were.
C40_NormalizedFacts ==
    [][ ( /\ call.fn = "infer_time_scope" /\ call.ret = Pending
          /\ call'.ret # Pending /\ call'.ret.ts # NoTimeScope ) =>
            /\ call'.arg = call.arg
            /\ \A k \in FactKeys :
                   call'.ret.facts_in[k] =
                       IF k \in {"time", KeyOfFrequency(call'.ret.ts.frequency)}
                       THEN Str(call'.ret.ts.scope)
                       ELSE call.arg[k]
      ]_vars

\* A year found under date was mirrored into time and period, and the date
\* was left as sent.
C40_YearMirroredIntoPeriod ==
    /\ call.fn = "infer_time_scope" /\ call.ret # Pending
    /\ call.arg.time = None /\ call.arg.date = Y2024 /\ call.arg.period = None
    /\ call.ret.ts.frequency = "yearly"
    /\ call.ret.facts_in.time = Y2024 /\ call.ret.facts_in.period = Y2024
    /\ call.ret.facts_in.date = Y2024
    /\ call.ret.facts_in.week = call.arg.week

Recorded(rows, user_id, r) ==
    IF r.status = "created"
    THEN \E n \in rows : n.id = r.nudge_id /\ n.status = "created"
    ELSE \E n \in rows : /\ n.status = r.status /\ n.reason = r.reason
                         /\ n.user_id = user_id
                         /\ n.rule_id = (IF r.rule_id = <<>> THEN NO_RULE ELSE r.rule_id)

\* C37: the step in which a rule of a batch is suppressed as a duplicate
\* removes no stored row, leaves the rows of the earlier results of the batch
\* stored, records its own result and goes on to the next rule of the batch;
\* a batch that returns has one recorded result for each rule it resolved.
C37_BatchIndependence ==
    /\ [][ \A w \in Workers :
              (ResultAdded(w) /\ NewResult(w).status = "suppressed_dedup") =>
                  /\ nudges_log \subseteq nudges_log'
                  /\ \A i \in 1..Len(wk'[w].results) :
                         Recorded(nudges_log', wk[w].evt.user_id, wk'[w].results[i])
                  /\ wk'[w].todo = Tail(wk[w].todo)
                  /\ wk'[w].todo # <<>> => wk'[w].pc = "rule"
         ]_vars
    /\ [](\A w \in Workers :
             (EngineEnded(w) /\ wk[w].batch = "returned"
              /\ ResolvedRules(wk[w].evt) # <<>>) =>
                 /\ Len(wk[w].results) = Len(ResolvedRules(wk[w].evt))
                 /\ \A i \in 1..Len(wk[w].results) :
                        /\ wk[w].results[i].rule_id = ResolvedRules(wk[w].evt)[i]
                        /\ Recorded(nudges_log, wk[w].evt.user_id, wk[w].results[i]))

\* A batch of two rules created a nudge for its first rule and was
\* suppressed as a duplicate on its second; the created row is stored.
C37_ConflictAfterCreated ==
    \E w \in Workers :
        /\ EngineEnded(w) /\ wk[w].evt = E_Combo
        /\ Statuses(w) = <<"created", "suppressed_dedup">>
        /\ Recorded(nudges_log, U3, wk[w].results[1])
        /\ Recorded(nudges_log, U3, wk[w].results[2])

\* No created row is stored for the rule, user and dedup scope.
SlotFree(rule_id, user_id, scope) ==
    ~\E n \in nudges_log :
        /\ n.status = "created" /\ n.rule_id = rule_id /\ n.user_id = user_id
        /\ ScopeOf(n) = scope

\* The rule worker w is about to run has its template and required facts and
\* is triggered by the facts.
RuleTriggers(w) ==
    LET rid == Head(wk[w].todo)
    IN /\ wk[w].pc = "rule"
       /\ load_rule_and_template(rid, wk[w].lang) = "ok"
       /\ validate_required_facts(RuleById(rid), wk[w].facts) = <<>>
       /\ evaluate_rule(RuleById(rid), wk[w].facts).raised = "none"
       /\ evaluate_rule(RuleById(rid), wk[w].facts).triggered

\* C34: whatever rows of other outcomes are stored for a rule, user and
\* scope, an event that triggers the rule while no created row is stored for
\* them reaches the dedup insert, and the insert gives CREATED.
C34_SlotNotConsumed ==
    [][ \A w \in Workers :
          /\ ( /\ RuleTriggers(w)
               /\ SlotFree(Head(wk[w].todo), wk[w].evt.user_id,
                           dedup_scope(RuleById(Head(wk[w].todo)), wk[w].facts,
                                       Clock[day]))
               /\ wk'[w] # wk[w] ) => wk'[w].pc = "insert"
          /\ ( /\ wk[w].pc = "insert"
               /\ SlotFree(wk[w].nudge.rule_id, wk[w].evt.user_id, wk[w].nudge.scope)
               /\ wk'[w] # wk[w] ) =>
                   (ResultAdded(w) /\ NewResult(w).status = "created")
      ]_vars

\* After a not_triggered outcome for a rule, user and day, an event as the
\* route parses it triggered the rule for the same user and day and the
\* engine raised; no created row is stored.
C34_TriggeredAfterAuditRaised ==
    /\ wk[1].evt = E_Route /\ wk[1].fault = "AttributeError"
    /\ \E n \in nudges_log :
           /\ n.status = "not_triggered" /\ n.rule_id = R_UP /\ n.user_id = U3
    /\ SlotFree(R_UP, U3, D1.s)

\* The count query returned for the call under way.
Counted == call.fn = "sent_today" /\ call.ret # Pending

\* The rows of a table with status sent and a sent day of today.
SentOn(rows, today) == { d \in rows : d.status = "sent" /\ d.sent_day = today }

\* C36: only delivery_log rows with status sent and a sent time of today
\* count toward the cap: the count is the one of the table without its
\* failed, suppressed and other-day rows, and each sent row of today under
\* the destination of the nudge counts for one.
C36_OnlySentTodayCount ==
    Counted =>
        LET a == call.arg
            prefix == dest_prefix(a.n)
            kept == SentOn(a.rows, a.today)
        IN /\ call.ret.sent_today = sent_today(kept, prefix, a.today)
           /\ call.ret.sent_today <= Cardinality(kept)
           /\ \A d \in kept :
                  d.destination = prefix =>
                      sent_today(a.rows \ {d}, prefix, a.today) = call.ret.sent_today - 1

\* The table holds a failed attempt, a rate_limited suppressed row and a row
\* sent on another day under the prefix of the nudge; one row sent today is
\* counted and the count is below the cap of the user.
C36_FailedAndSuppressedIgnored ==
    /\ Counted
    /\ call.ret.sent_today = 1 /\ call.ret.sent_today < call.ret.max_per_day
    /\ LET a == call.arg
           under == { d \in a.rows : IsPrefix(dest_prefix(a.n), d.destination) }
       IN /\ \E d \in under : d.status = "failed"
          /\ \E d \in under : d.status = "suppressed" /\ d.error = "rate_limited"
          /\ \E d \in under : d.status = "sent" /\ d.sent_day # a.today

\* The delivery_log rows of a call's table that belong to a user: the rows
\* of the nudges of that user.
RowsOf(a, user_id) ==
    { d \in a.rows :
        \E i \in 1..Len(a.nudges) :
            a.nudges[i].id = d.nudge_id /\ a.nudges[i].user_id = user_id }

SentFor(user_id, d) ==
    { r \in delivery_log :
        /\ r.status = "sent" /\ r.sent_day = d
        /\ \E n \in nudges_log : n.id = r.nudge_id /\ n.user_id = user_id }

\* max_per_day of the preference row of a user, 3 for a user without one.
CapOf(user_id) ==
    LET prefs == { p \in UserPreferences :
                     p.user_id = user_id /\ p.community_id = NoCommunity }
    IN IF prefs = {} THEN 3 ELSE (CHOOSE p \in prefs : TRUE).max_per_day

\* Worker w is in an orchestrate call that took the rate-limit branch.
RateLimited(w) ==
    /\ wk[w].pc = "faulted" /\ wk[w].fault = "DBAPIError"
    /\ wk[w].batch = "returned"

CreatedBy(w) ==
    { x \in notifications :
        \E i \in 1..Len(wk[w].results) :
            /\ wk[w].results[i].status = "created"
            /\ wk[w].results[i].nudge_id = x.nudge_log_id }

Undelivered(x) ==
    \/ x.status = "failed"
    \/ \E w \in Workers : RateLimited(w) /\ NextCreated(w).nudge_id = x.nudge_log_id

\* Worker v handled an event that reached the dedup insert under the key of
\* the nudge of notification x, after that nudge was created.
LaterIdentical(v, x) ==
    \E n \in nudges_log, i \in 1..Len(wk[v].results) :
        /\ n.id = x.nudge_log_id
        /\ wk[v].results[i].dedup_key = n.dedup_key
        /\ wk[v].results[i].nudge_id # n.id

====
